---- MODULE Spec2Model ----
(***************************************************************************)
(* Tree Gen LLM: the task/lock coordinator (Generate, Cancel, the apply    *)
(* timers), the worker thread, and the two inference strategies            *)
(* run_llm_soft (in-process, under INFER_LOCK) and run_llm_hard (worker    *)
(* subprocess), modelled from src/TreeGenLLM/__init__ .py.                 *)
(*                                                                         *)
(* The control thread (operators and bpy.app.timers callbacks) runs one    *)
(* handler at a time, so each handler is one action.  A worker thread is   *)
(* interleaved with the control thread at the granularity of the program   *)
(* points where it reads or writes shared state (the cancel event, the     *)
(* lock, the process handle).                                              *)
(***************************************************************************)
EXTENDS Integers, Sequences, FiniteSets, TLC

\* Number of Generate requests accepted in one behaviour (caps _TASK_SEQ).
MaxTasks == 2

Tasks == 1..MaxTasks

\* prefs.cancel_mode (lines 410-419)
CancelModes == {"AUTO", "SOFT", "HARD"}

\* resolved model paths a Generate request may carry
Paths == {"m1", "m2"}

\* Variant of the retry schedule: the unconstrained attempt comes second.
Attempts_reordered ==
    << [temp |-> 4, use_g |-> TRUE],
       [temp |-> 4, use_g |-> FALSE],
       [temp |-> 2, use_g |-> TRUE] >>

\* for temp,use_g in ((0.4,True),(0.2,True),(0.4,False))  -- temperatures in tenths
Attempts ==
    << [temp |-> 4, use_g |-> TRUE],
       [temp |-> 2, use_g |-> TRUE],
       [temp |-> 4, use_g |-> FALSE] >>

\* what llm.create_chat_completion can hand back to one call of _call
\*   good    : text whose first {...} span parses to a JSON object
\*   empty   : content is None / blank
\*   badjson : text that json.loads rejects
\*   raise   : the engine raises
EngineTexts == {"good", "empty", "badjson"}

VARIABLES
    treegen_busy,        \* wm.treegen_busy
    treegen_engine_busy, \* wm.treegen_engine_busy
    CURRENT_TASK,        \* _CURRENT_TASK: 0 is None, else the task id
    TASK_SEQ,            \* _TASK_SEQ
    INFER_LOCK,          \* 0 is free, else the thread (task id) holding it
    cancel_event,        \* task.cancel_event.is_set(), per task
    taskProc,            \* task.proc: 0 is None, else the thread whose Popen it is
    gen_llm,             \* Generator.llm / model_path: "" is not loaded, else the path
    pc,                  \* program point of the worker thread of each task
    use_mode,            \* cancel_mode argument of _worker
    model_path,          \* model_path argument of _worker
    schema_ok,           \* schema argument of the strategy is a non-empty dict
    path_seen,           \* what os.path.exists(model_path) told the strategy at entry
    attempt,             \* index of the retry loop of run_llm_soft (1..3, 4 = loop over)
    calls,               \* the (temp, use_g) of every attempt whose engine call was made
    call_out,            \* what the engine call in flight handed back
    sameText,            \* every engine call of this run so far handed back the same
    loadedNow,           \* this run of run_llm_soft called gen.load
    abort_retry,         \* _call already dropped abort_callback after a TypeError
    last_err,            \* last_err of run_llm_soft
    result,              \* the dict returned by run_llm_soft / run_llm_hard
    timer,               \* the bpy.app.timers callback registered by _worker
    argFile,             \* the temporary argument file of run_llm_hard exists
    procState,           \* worker subprocess: none, running, loaded, exited, killed
    procOut,             \* the line the worker subprocess printed to stdout
    procCalls,           \* create_chat_completion calls made in the subprocess
    engineCalls,         \* create_chat_completion calls made by run_llm_soft
    cancelSetAt,         \* where the worker thread stood when cancel_event was set
    objects,             \* objects created by spawn_new_object
    applied,             \* parameter sets written to a modifier
    applyLog,            \* what the timer callback did, kept until the next task starts
    supports_abort,      \* _supports_abort_callback() of the installed llama_cpp
    vc_params,           \* validate_and_clip: the params argument of a call
    vc_schema,           \* validate_and_clip: the schema argument of a call
    vc_ret,              \* validate_and_clip: the (out, clipped, violations) returned
    vc_pc,               \* validate_and_clip: idle, call (called), returned, scored
    vc_conf,             \* confidence_score of what validate_and_clip returned
    js_raw,              \* span extraction: the stripped text the engine returned
    js_text,             \* span extraction: json_text, handed to json.loads
    js_pc,               \* span extraction: idle, call, returned
    gb_schema,           \* _gbnf_for_schema: the schema argument, in insertion order
    gb_text,             \* _gbnf_for_schema: the grammar returned, rule by rule
    gb_pc,               \* _gbnf_for_schema: idle, call, returned
    sb_schema,           \* build_spec_block: the schema argument, in insertion order
    sb_lines,            \* build_spec_block: the lines of the block returned
    sb_pc                \* build_spec_block: idle, call, returned

coord   == << treegen_busy, treegen_engine_busy, CURRENT_TASK, TASK_SEQ >>
softv   == << attempt, calls, call_out, sameText, loadedNow, abort_retry, last_err,
              engineCalls >>
hardv   == << argFile, procState, procOut, procCalls, taskProc >>
scenev  == << objects, applied, applyLog >>
spanv   == << js_raw, js_text, js_pc >>
gbnfv   == << gb_schema, gb_text, gb_pc >>
blockv  == << sb_schema, sb_lines, sb_pc >>
valv    == << vc_params, vc_schema, vc_ret, vc_pc, vc_conf, spanv, gbnfv, blockv >>
vars    == << treegen_busy, treegen_engine_busy, CURRENT_TASK, TASK_SEQ, INFER_LOCK,
              cancel_event, taskProc, gen_llm, pc, use_mode, model_path, schema_ok, attempt,
              calls, call_out, sameText, loadedNow, abort_retry, last_err, result, timer, argFile,
              procState, procOut, procCalls, engineCalls, cancelSetAt, path_seen, objects,
              applied, applyLog, supports_abort, valv >>

----------------------------------------------------------------------------
\* Validation helpers (lines 160-186)

\* Python values as they come out of json.loads.  A number carries its value in
\* halves (v = 5 is 2.5), so that half-integers are exact.  PyNaN is the float
\* json.loads makes of the literal NaN.
PyInt(n)   == [k |-> "int",   v |-> 2 * n]
PyFloat(h) == [k |-> "float", v |-> h]
PyBool(b)  == [k |-> "bool",  v |-> b]
PyStr(x)   == [k |-> "str",   v |-> x]
PyNone     == [k |-> "none",  v |-> 0]
PyNaN      == [k |-> "nan",   v |-> 0]

\* the value of a number in halves; bool is a subclass of int
NumOf(a) == IF a.k = "bool" THEN (IF a.v THEN 2 ELSE 0) ELSE a.v

\* a == b of Python; nan equals nothing, itself included
PyEq(a, b) ==
    IF a.k \in {"int", "float", "bool"} /\ b.k \in {"int", "float", "bool"}
      THEN NumOf(a) = NumOf(b)
      ELSE a.k = b.k /\ a.k # "nan" /\ (a.k = "str" => a.v = b.v)

\* the strings float() parses to a finite number, with their values in halves
StrFloat == [x \in {"7", "2.5"} |-> IF x = "7" THEN 14 ELSE 5]

\* float(value) does not raise
float_ok(a) ==
    \/ a.k \in {"int", "float", "bool", "nan"}
    \/ a.k = "str" /\ a.v \in DOMAIN StrFloat \cup {"nan"}

\* float(value): a float, PyNaN for nan and for the string "nan"
float_of(a) ==
    CASE a.k = "nan" -> PyNaN
      [] a.k = "str" -> IF a.v = "nan" THEN PyNaN ELSE PyFloat(StrFloat[a.v])
      [] OTHER       -> PyFloat(NumOf(a))

\* int(x) of a number in halves: truncation toward zero
int_of(h) == IF h >= 0 THEN h \div 2 ELSE -((-h) \div 2)

\* Variant of py_round: halves go away from zero.
py_round_half_up(h) ==
    IF h % 2 = 0 THEN h \div 2 ELSE IF h > 0 THEN (h + 1) \div 2 ELSE (h - 1) \div 2

\* Variant of py_round: the next integer above the truncation.
py_round_next(h) == h \div 2 + 1

\* round(x) of a float in halves: to the nearest integer, halves to the even one
py_round(h) ==
    IF h % 2 = 0 THEN h \div 2
    ELSE LET below == (h - 1) \div 2 IN IF below % 2 = 0 THEN below ELSE below + 1

\* a > b of Python on numbers: False as soon as one side is nan
py_gt(a, b) == a.k # "nan" /\ b.k # "nan" /\ a.v > b.v

\* max(a, b) and min(a, b) of Python: the first argument unless the second beats it
py_max(a, b) == IF py_gt(b, a) THEN b ELSE a
py_min(a, b) == IF py_gt(a, b) THEN b ELSE a

\* str(value).lower()
str_lower(a) ==
    CASE a.k = "str"   -> IF a.v = "Yes" THEN "yes" ELSE a.v
      [] a.k = "bool"  -> IF a.v THEN "true" ELSE "false"
      [] a.k = "int"   -> IF a.v = 2 THEN "1" ELSE IF a.v = 0 THEN "0" ELSE "<int>"
      [] a.k = "float" -> "<float>"
      [] a.k = "nan"   -> "nan"
      [] OTHER         -> "none"

\* clip_value(value, spec).  spec: [type, ranged, min, max, default], min and max
\* in halves, ranged FALSE when the spec has neither.  int(round(nan)) raises, so
\* an integer spec falls back to the default for nan as for an unparseable value.
clip_value(value, spec) ==
    CASE spec.type = "float" ->
           LET x  == IF float_ok(value) THEN float_of(value) ELSE float_of(spec.default)
               lo == IF spec.ranged THEN PyFloat(spec.min) ELSE x
               hi == IF spec.ranged THEN PyFloat(spec.max) ELSE x
           IN  py_min(py_max(x, lo), hi)
      [] spec.type = "integer" ->
           LET x  == IF float_ok(value) /\ float_of(value) # PyNaN
                       THEN PyInt(py_round(float_of(value).v))
                       ELSE PyInt(int_of(NumOf(spec.default)))
               lo == IF spec.ranged THEN PyInt(int_of(spec.min)) ELSE x
               hi == IF spec.ranged THEN PyInt(int_of(spec.max)) ELSE x
           IN  py_min(py_max(x, lo), hi)
      [] spec.type = "bool" ->
           IF value.k = "bool" THEN value
           ELSE PyBool(str_lower(value) \in {"true", "1", "yes", "on"})
      [] OTHER -> value

\* Variant of validate_and_clip: a key missing from params is skipped.
validate_and_clip_skip_missing(params, schema) ==
    LET present == DOMAIN schema \cap DOMAIN params
    IN  [ out        |-> [k \in present |-> clip_value(params[k], schema[k])],
          clipped    |-> [k \in {j \in present :
                                   ~PyEq(clip_value(params[j], schema[j]), params[j])}
                           |-> [in |-> params[k], out |-> clip_value(params[k], schema[k])]],
          violations |-> [k \in (DOMAIN schema \ DOMAIN params)
                                  \cup (DOMAIN params \ DOMAIN schema)
                           |-> IF k \in DOMAIN schema THEN "missing->default"
                               ELSE "unknown-key->dropped"] ]

\* Variant of validate_and_clip: an entry of clipped whenever the output is not the
\* very value given, 3.0 for 3 included.
validate_and_clip_by_identity(params, schema) ==
    LET present == DOMAIN schema \cap DOMAIN params
    IN  [ out        |-> [k \in DOMAIN schema |->
                            IF k \notin DOMAIN params THEN schema[k].default
                            ELSE IF k \notin DOMAIN schema THEN params[k]
                            ELSE clip_value(params[k], schema[k])],
          clipped    |-> [k \in {j \in present :
                                   clip_value(params[j], schema[j]) # params[j]}
                           |-> [in |-> params[k], out |-> clip_value(params[k], schema[k])]],
          violations |-> [k \in (DOMAIN schema \ DOMAIN params)
                                  \cup (DOMAIN params \ DOMAIN schema)
                           |-> IF k \in DOMAIN schema THEN "missing->default"
                               ELSE "unknown-key->dropped"] ]

\* Variant of validate_and_clip: a default is filled in without a violation.
validate_and_clip_silent_default(params, schema) ==
    LET present == DOMAIN schema \cap DOMAIN params
    IN  [ out        |-> [k \in DOMAIN schema |->
                            IF k \notin DOMAIN params THEN schema[k].default
                            ELSE IF k \notin DOMAIN schema THEN params[k]
                            ELSE clip_value(params[k], schema[k])],
          clipped    |-> [k \in {j \in present :
                                   ~PyEq(clip_value(params[j], schema[j]), params[j])}
                           |-> [in |-> params[k], out |-> clip_value(params[k], schema[k])]],
          violations |-> [k \in (DOMAIN params \ DOMAIN schema)
                           |-> IF k \in DOMAIN schema THEN "missing->default"
                               ELSE "unknown-key->dropped"] ]

\* Variant of validate_and_clip: an unknown key is passed through to out.
validate_and_clip_keep_unknown(params, schema) ==
    LET present == DOMAIN schema \cap DOMAIN params
    IN  [ out        |-> [k \in (DOMAIN schema \cup DOMAIN params) |->
                            IF k \notin DOMAIN params THEN schema[k].default
                            ELSE IF k \notin DOMAIN schema THEN params[k]
                            ELSE clip_value(params[k], schema[k])],
          clipped    |-> [k \in {j \in present :
                                   ~PyEq(clip_value(params[j], schema[j]), params[j])}
                           |-> [in |-> params[k], out |-> clip_value(params[k], schema[k])]],
          violations |-> [k \in (DOMAIN schema \ DOMAIN params)
                                  \cup (DOMAIN params \ DOMAIN schema)
                           |-> IF k \in DOMAIN schema THEN "missing->default"
                               ELSE "unknown-key->dropped"] ]

\* validate_and_clip(params, schema): the triple (out, clipped, violations)
validate_and_clip(params, schema) ==
    LET present == DOMAIN schema \cap DOMAIN params
    IN  [ out        |-> [k \in DOMAIN schema |->
                            IF k \notin DOMAIN params THEN schema[k].default
                            ELSE clip_value(params[k], schema[k])],
          clipped    |-> [k \in {j \in present :
                                   ~PyEq(clip_value(params[j], schema[j]), params[j])}
                           |-> [in |-> params[k], out |-> clip_value(params[k], schema[k])]],
          violations |-> [k \in (DOMAIN schema \ DOMAIN params)
                                  \cup (DOMAIN params \ DOMAIN schema)
                           |-> IF k \in DOMAIN schema THEN "missing->default"
                               ELSE "unknown-key->dropped"] ]

\* confidence_score computes in floats.  A score is kept as a whole number of
\* 1/Resolution, every quotient rounded down to it.
Resolution == 10000

\* max(a, b) of two ints
int_max(a, b) == IF b > a THEN b ELSE a

RECURSIVE SumOver(_, _)
SumOver(f, S) ==
    IF S = {} THEN 0
    ELSE LET k == CHOOSE x \in S : TRUE IN f[k] + SumOver(f, S \ {k})

\* isinstance(a, (int, float)): bool is an int, nan is a float
is_number(a) == a.k \in {"int", "float", "bool", "nan"}

\* Variant of number_diff: the distance is taken from zero, not from the default.
number_diff_from_zero(v, d) ==
    IF v.k = "nan" \/ d.k = "nan" THEN Resolution
    ELSE LET h   == IF NumOf(v) >= 0 THEN NumOf(v) ELSE -NumOf(v)
             rng == (IF NumOf(d) >= 0 THEN NumOf(d) ELSE -NumOf(d)) + 2
             q   == (Resolution * h) \div rng
         IN  IF q > Resolution THEN Resolution ELSE q

\* min(1.0, abs(v - d) / (rng + eps)) with rng = abs(d) + 1.0 and eps = 1e-9.
\* With nan on either side the quotient is nan and min(1.0, nan) is 1.0.  eps
\* keeps the quotient just below an exact multiple of 1/Resolution.
number_diff(v, d) ==
    IF v.k = "nan" \/ d.k = "nan" THEN Resolution
    ELSE LET h   == IF NumOf(v) >= NumOf(d) THEN NumOf(v) - NumOf(d) ELSE NumOf(d) - NumOf(v)
             rng == (IF NumOf(d) >= 0 THEN NumOf(d) ELSE -NumOf(d)) + 2
             q   == (Resolution * h) \div rng
             below == IF h > 0 /\ (Resolution * h) % rng = 0 THEN q - 1 ELSE q
         IN  IF below > Resolution THEN Resolution ELSE below

\* the keys of validated that append to diffs: the isinstance test of line 194
\* comes first, the one for two bools (line 196) only after it has failed
diff_keys(validated, defaults) ==
    {k \in DOMAIN validated \cap DOMAIN defaults :
        \/ is_number(validated[k]) /\ is_number(defaults[k])
        \/ validated[k].k = "bool" /\ defaults[k].k = "bool"}

\* the element of diffs a key appends
key_diff(v, d) ==
    IF is_number(v) /\ is_number(d) THEN number_diff(v, d)
    ELSE IF v # d THEN (3 * Resolution) \div 10 ELSE 0

\* base = sum(diffs) / max(1, len(diffs))
conf_base(validated, defaults) ==
    LET ks    == diff_keys(validated, defaults)
        diffs == [k \in ks |-> key_diff(validated[k], defaults[k])]
    IN  SumOver(diffs, ks) \div int_max(1, Cardinality(ks))

\* clip_penalty = min(0.5, len(clipped) / max(1, len(validated)))
clip_penalty(validated, clipped) ==
    LET q == (Resolution * Cardinality(DOMAIN clipped))
               \div int_max(1, Cardinality(DOMAIN validated))
    IN  IF q < Resolution \div 2 THEN q ELSE Resolution \div 2

\* Variant of confidence_score: the penalty is subtracted and nothing is clamped.
confidence_score_subtract(validated, defaults, clipped) ==
    IF DOMAIN validated \cap DOMAIN defaults = {} THEN 0
    ELSE conf_base(validated, defaults) - clip_penalty(validated, clipped)

\* confidence_score(validated, defaults, clipped), in 1/Resolution
confidence_score(validated, defaults, clipped) ==
    IF DOMAIN validated \cap DOMAIN defaults = {} THEN 0
    ELSE LET x == (conf_base(validated, defaults)
                     * (Resolution - clip_penalty(validated, clipped))) \div Resolution
         IN  int_max(0, IF x < Resolution THEN x ELSE Resolution)

\* defaults_from_schema(schema)
defaults_from_schema(schema) == [k \in DOMAIN schema |-> schema[k].default]

\* no call of validate_and_clip is being looked at
NoMapping == [k \in {} |-> PyNone]
NoReturn  == [out |-> NoMapping, clipped |-> NoMapping, violations |-> NoMapping]
ValIdle ==
    /\ vc_params = NoMapping
    /\ vc_schema = NoMapping
    /\ vc_ret = NoReturn
    /\ vc_pc = "idle"
    /\ vc_conf = 0

\* no span extraction is being looked at
SpanIdle ==
    /\ js_raw = << >>
    /\ js_text = << >>
    /\ js_pc = "idle"

\* no call of _gbnf_for_schema is being looked at
GbnfIdle ==
    /\ gb_schema = << >>
    /\ gb_text = << >>
    /\ gb_pc = "idle"

\* no call of build_spec_block is being looked at
BlockIdle ==
    /\ sb_schema = << >>
    /\ sb_lines = << >>
    /\ sb_pc = "idle"

----------------------------------------------------------------------------
\* Result dicts.  params is "null" for None and "validated" for the mapping
\* validate_and_clip returned; error is violations["error"].
\* raw is "null" or "text" (the stripped, non-empty text), clipped is "null" or
\* "clipped or None", confidence is "0.0" or "conf" (what confidence_score gave).
NoResult ==
    [ok |-> FALSE, params |-> "none", error |-> "(pending)", raw |-> "none",
     clipped |-> "none", confidence |-> "none"]

\* Variant of Failure: the text of the engine is kept in raw.
Failure_with_raw(err) ==
    [ok |-> FALSE, params |-> "null", error |-> err, raw |-> "text",
     clipped |-> "null", confidence |-> "0.0"]

\* the dict of every return with ok False
Failure(err) ==
    [ok |-> FALSE, params |-> "null", error |-> err, raw |-> "null",
     clipped |-> "null", confidence |-> "0.0"]

\* the dict of the return with ok True (lines 671-673 and 925-927)
Success ==
    [ok |-> TRUE, params |-> "validated", error |-> "none", raw |-> "text",
     clipped |-> "clipped or None", confidence |-> "conf"]

NoLog == [kind |-> "none", ok |-> FALSE]

SoftPcs == {"s_entry", "s_lock", "s_load", "s_boundary", "s_incall",
            "s_postcall", "s_parse", "s_except"}
HardPcs == {"h_entry", "h_write", "h_spawn", "h_poll_cancel", "h_poll_proc", "h_read"}

\* the state after the add-on is registered (module globals, window-manager
\* properties, Generator.instance())
ProgInit ==
    /\ treegen_busy = FALSE
    /\ treegen_engine_busy = FALSE
    /\ CURRENT_TASK = 0
    /\ TASK_SEQ = 0
    /\ INFER_LOCK = 0
    /\ cancel_event = [t \in Tasks |-> FALSE]
    /\ taskProc = [t \in Tasks |-> 0]
    /\ gen_llm = ""
    /\ pc = [t \in Tasks |-> "unborn"]
    /\ use_mode = [t \in Tasks |-> "AUTO"]
    /\ model_path = [t \in Tasks |-> "m1"]
    /\ schema_ok = [t \in Tasks |-> TRUE]
    /\ path_seen = [t \in Tasks |-> "unchecked"]
    /\ attempt = [t \in Tasks |-> 1]
    /\ calls = [t \in Tasks |-> << >>]
    /\ call_out = [t \in Tasks |-> "none"]
    /\ sameText = [t \in Tasks |-> TRUE]
    /\ loadedNow = [t \in Tasks |-> FALSE]
    /\ abort_retry = [t \in Tasks |-> FALSE]
    /\ last_err = [t \in Tasks |-> "None"]
    /\ result = [t \in Tasks |-> NoResult]
    /\ timer = [t \in Tasks |-> "none"]
    /\ argFile = [t \in Tasks |-> FALSE]
    /\ procState = [t \in Tasks |-> "none"]
    /\ procOut = [t \in Tasks |-> "none"]
    /\ procCalls = [t \in Tasks |-> 0]
    /\ engineCalls = [t \in Tasks |-> 0]
    /\ cancelSetAt = [t \in Tasks |-> "unset"]
    /\ objects = 0
    /\ applied = 0
    /\ applyLog = NoLog
    /\ supports_abort \in BOOLEAN

Init == ProgInit /\ ValIdle /\ SpanIdle /\ GbnfIdle /\ BlockIdle

----------------------------------------------------------------------------
\* Control thread: operators

\* Variants of the busy test of Generate: one reads the progress flag
\* treegen_busy instead of treegen_engine_busy, one relies on the lock alone,
\* one tests nothing.
EngineBusy_never == FALSE
EngineBusy_progress_flag == treegen_busy \/ INFER_LOCK # 0
EngineBusy_lock_only == INFER_LOCK # 0

\* wm.treegen_engine_busy or INFER_LOCK.locked()   (line 1021)
EngineBusy == treegen_engine_busy \/ INFER_LOCK # 0

\* Variant of the selection: AUTO picks the subprocess when abort is supported.
use_hard_auto_inverted(mode) == mode = "HARD" \/ (mode = "AUTO" /\ supports_abort)

\* use_hard of _worker (line 1068)
use_hard(mode) == mode = "HARD" \/ (mode = "AUTO" /\ ~supports_abort)

\* _clear_task_if(task): the value _CURRENT_TASK has afterwards
clear_task_if(t) == IF CURRENT_TASK = t THEN 0 ELSE CURRENT_TASK

\* where the worker thread of task t stands, as recorded when Cancel sets its event
Where(t) == IF pc[t] = "s_boundary" /\ attempt[t] > Len(Attempts) THEN "s_final" ELSE pc[t]

\* TREE_OT_Generate.execute.  prompt_ok: props.prompt.strip() is non-empty;
\* path: the model path after resolution, "" when no existing file was found;
\* mode: prefs.cancel_mode.  SC (the socket schema) is the non-empty module constant.
Generate(prompt_ok, path, mode) ==
    IF EngineBusy \/ ~prompt_ok \/ path = "" THEN
        \* self.report({'WARNING'| 'ERROR'}, ...); return {'CANCELLED'}
        UNCHANGED vars
    ELSE
        /\ TASK_SEQ < MaxTasks
        /\ treegen_engine_busy' = TRUE
        /\ treegen_busy' = TRUE
        /\ TASK_SEQ' = TASK_SEQ + 1                      \* _new_task()
        /\ CURRENT_TASK' = TASK_SEQ + 1
        /\ pc' = [pc EXCEPT ![TASK_SEQ + 1] = "start"]   \* threading.Thread(...).start()
        /\ use_mode' = [use_mode EXCEPT ![TASK_SEQ + 1] = mode]
        /\ model_path' = [model_path EXCEPT ![TASK_SEQ + 1] = path]
        /\ schema_ok' = [schema_ok EXCEPT ![TASK_SEQ + 1] = TRUE]   \* copy of SC
        /\ applyLog' = NoLog
        /\ UNCHANGED << INFER_LOCK, cancel_event, gen_llm, softv, result, timer,
                        hardv, cancelSetAt, path_seen, objects, applied, supports_abort, valv >>

\* Variant: the process is left running.
Terminated_noop(p) == procState

\* proc.terminate(); time.sleep(0.25); if proc.poll() is None: proc.kill()
\* applied to the process of thread p (0: no process handle)
Terminated(p) ==
    [q \in Tasks |-> IF q = p /\ procState[q] \in {"running", "loaded"}
                     THEN "killed" ELSE procState[q]]

\* Variant of Cancel: the engine flag is cleared together with the progress flag.
Cancel_to_idle ==
    /\ IF CURRENT_TASK # 0
         THEN /\ cancel_event' = [cancel_event EXCEPT ![CURRENT_TASK] = TRUE]
              /\ cancelSetAt' = IF cancel_event[CURRENT_TASK] THEN cancelSetAt
                                ELSE [cancelSetAt EXCEPT ![CURRENT_TASK] = Where(CURRENT_TASK)]
              /\ procState' = Terminated(taskProc[CURRENT_TASK])
         ELSE UNCHANGED << cancel_event, cancelSetAt, procState >>
    /\ treegen_busy' = FALSE
    /\ treegen_engine_busy' = FALSE
    /\ UNCHANGED << CURRENT_TASK, TASK_SEQ, INFER_LOCK, gen_llm, pc, use_mode,
                    model_path, schema_ok, softv, result, timer, argFile, procOut, procCalls,
                    taskProc, path_seen, scenev, supports_abort, valv >>

\* TREE_OT_Cancel.execute
Cancel ==
    /\ IF CURRENT_TASK # 0
         THEN /\ cancel_event' = [cancel_event EXCEPT ![CURRENT_TASK] = TRUE]
              /\ cancelSetAt' = IF cancel_event[CURRENT_TASK] THEN cancelSetAt
                                ELSE [cancelSetAt EXCEPT ![CURRENT_TASK] = Where(CURRENT_TASK)]
              /\ procState' = Terminated(taskProc[CURRENT_TASK])
         ELSE UNCHANGED << cancel_event, cancelSetAt, procState >>
    /\ treegen_busy' = FALSE
    /\ treegen_engine_busy' = TRUE
    /\ UNCHANGED << CURRENT_TASK, TASK_SEQ, INFER_LOCK, gen_llm, pc, use_mode,
                    model_path, schema_ok, softv, result, timer, argFile, procOut, procCalls,
                    taskProc, path_seen, scenev, supports_abort, valv >>

\* Generator.default_model_path(): the first model of the manifest
DefaultModelPath == "m1"

\* TREE_OT_LoadGenerator.execute (Setup).  models_ok: ensure_models succeeded;
\* load_ok: gen.load(gen.default_model_path()) did not raise.  The operator tests
\* neither the busy flags nor INFER_LOCK.
LoadGenerator(models_ok, load_ok) ==
    IF models_ok /\ load_ok
      THEN /\ gen_llm' = DefaultModelPath
           /\ UNCHANGED << coord, INFER_LOCK, cancel_event, pc, use_mode, model_path,
                           schema_ok, softv, result, timer, hardv, cancelSetAt,
                           path_seen, scenev, supports_abort, valv >>
      ELSE UNCHANGED vars

----------------------------------------------------------------------------
\* Control thread: timer callbacks registered by _worker

\* The worker thread of task t has ended and its callback has run: the thread's
\* frame and the _Task object are no longer referenced.  The argument file and a
\* live subprocess are resources outside the interpreter and stay as they are.
Retire(t) ==
    /\ pc' = [pc EXCEPT ![t] = "ended"]
    /\ timer' = [timer EXCEPT ![t] = "none"]
    /\ result' = [result EXCEPT ![t] = NoResult]
    /\ cancel_event' = [cancel_event EXCEPT ![t] = FALSE]
    /\ cancelSetAt' = [cancelSetAt EXCEPT ![t] = "unset"]
    /\ taskProc' = [taskProc EXCEPT ![t] = 0]
    /\ use_mode' = [use_mode EXCEPT ![t] = "AUTO"]
    /\ model_path' = [model_path EXCEPT ![t] = "m1"]
    /\ schema_ok' = [schema_ok EXCEPT ![t] = TRUE]
    /\ path_seen' = [path_seen EXCEPT ![t] = "unchecked"]
    /\ attempt' = [attempt EXCEPT ![t] = 1]
    /\ calls' = [calls EXCEPT ![t] = << >>]
    /\ call_out' = [call_out EXCEPT ![t] = "none"]
    /\ sameText' = [sameText EXCEPT ![t] = TRUE]
    /\ loadedNow' = [loadedNow EXCEPT ![t] = FALSE]
    /\ abort_retry' = [abort_retry EXCEPT ![t] = FALSE]
    /\ last_err' = [last_err EXCEPT ![t] = "None"]
    /\ engineCalls' = [engineCalls EXCEPT ![t] = 0]
    /\ procCalls' = [procCalls EXCEPT ![t] = 0]
    /\ procOut' = [procOut EXCEPT ![t] = "none"]
    /\ procState' = [procState EXCEPT ![t] =
                        IF @ \in {"exited", "killed"} THEN "none" ELSE @]

\* _apply_result(prompt_text, result, wm, t1, t2): its effect on the scene and on
\* wm.treegen_busy.  gn_ok: ensure_gn_modifier found the node group.
apply_result(res, gn_ok) ==
    /\ treegen_busy' = FALSE
    /\ IF ~res.ok
         THEN /\ UNCHANGED << objects, applied >>
              /\ applyLog' = [kind |-> "LLM failed", ok |-> FALSE]
         ELSE /\ objects' = objects + 1                  \* spawn_new_object
              /\ applied' = IF gn_ok THEN applied + 1 ELSE applied
              /\ applyLog' = [kind |-> IF gn_ok THEN "OK" ELSE "apply error",
                              ok |-> TRUE]

\* Variant of _apply: the result is applied without looking at the cancel event.
apply_unchecked(t) ==
    /\ timer[t] = "apply"
    /\ \E gn_ok \in BOOLEAN : apply_result(result[t], gn_ok)
    /\ CURRENT_TASK' = clear_task_if(t)
    /\ treegen_engine_busy' = FALSE
    /\ Retire(t)
    /\ UNCHANGED << TASK_SEQ, INFER_LOCK, gen_llm, argFile, supports_abort, valv >>

\* _apply of TREE_OT_Generate._worker
apply(t) ==
    /\ timer[t] = "apply"
    /\ IF cancel_event[t]
         THEN /\ treegen_busy' = FALSE
              /\ UNCHANGED << objects, applied >>
              /\ applyLog' = [kind |-> "Canceled. Skipping apply.", ok |-> result[t].ok]
         ELSE \E gn_ok \in BOOLEAN : apply_result(result[t], gn_ok)
    /\ CURRENT_TASK' = clear_task_if(t)
    /\ treegen_engine_busy' = FALSE
    /\ Retire(t)
    /\ UNCHANGED << TASK_SEQ, INFER_LOCK, gen_llm, argFile, supports_abort, valv >>

\* _err of TREE_OT_Generate._worker
err(t) ==
    /\ timer[t] = "err"
    /\ treegen_busy' = FALSE
    /\ treegen_engine_busy' = FALSE
    /\ CURRENT_TASK' = clear_task_if(t)
    /\ applyLog' = [kind |-> "worker error", ok |-> FALSE]
    /\ Retire(t)
    /\ UNCHANGED << TASK_SEQ, INFER_LOCK, gen_llm, argFile, objects, applied,
                    supports_abort, valv >>

----------------------------------------------------------------------------
\* Worker thread: TREE_OT_Generate._worker

\* `return <dict>` of a strategy followed by bpy.app.timers.register(_apply)
Return(t, res) ==
    /\ result' = [result EXCEPT ![t] = res]
    /\ timer' = [timer EXCEPT ![t] = "apply"]
    /\ pc' = [pc EXCEPT ![t] = "done"]

\* an exception leaves the strategy: except Exception in _worker registers _err
Raise(t) ==
    /\ timer' = [timer EXCEPT ![t] = "err"]
    /\ pc' = [pc EXCEPT ![t] = "done"]
    /\ UNCHANGED result

\* the thread starts and picks the strategy
worker_start(t) ==
    /\ pc[t] = "start"
    /\ pc' = [pc EXCEPT ![t] = IF use_hard(use_mode[t]) THEN "h_entry" ELSE "s_entry"]
    /\ UNCHANGED << coord, INFER_LOCK, cancel_event, gen_llm, use_mode, model_path, schema_ok,
                    softv, result, timer, hardv, cancelSetAt, path_seen, scenev,
                    supports_abort, valv >>

----------------------------------------------------------------------------
\* run_llm_soft

\* f"{type(e).__name__}: {e}" of the exception that ended an attempt
ErrReason(o) ==
    CASE o = "empty"   -> "RuntimeError: empty_response"
      [] o = "badjson" -> "JSONDecodeError: Expecting value"
      [] o = "raise"   -> "RuntimeError: engine failure"
      [] OTHER         -> "unknown"

\* Variant of the fail-fast checks: the schema is looked at before the path.
entry_failure_schema_first(exists, sch_ok) ==
    IF ~sch_ok THEN "schema_missing" ELSE IF ~exists THEN "model_missing" ELSE "none"

\* the configuration checks shared by both strategies (lines 612-617, 838-843):
\* the error tag returned, "none" when the call goes on
entry_failure(exists, sch_ok) ==
    IF ~exists THEN "model_missing" ELSE IF ~sch_ok THEN "schema_missing" ELSE "none"

\* the fail-fast checks before the lock (lines 612-621).  exists: os.path.exists
\* of the model path now; import_ok: _lazy_import_llama().
soft_entry(t) ==
    /\ pc[t] = "s_entry"
    /\ \E exists \in BOOLEAN, import_ok \in BOOLEAN :
         /\ path_seen' = [path_seen EXCEPT ![t] = IF exists THEN "present" ELSE "missing"]
         /\ IF entry_failure(exists, schema_ok[t]) # "none"
              THEN Return(t, Failure(entry_failure(exists, schema_ok[t])))
            ELSE IF ~import_ok THEN Return(t, Failure("llama import failed"))
            ELSE /\ pc' = [pc EXCEPT ![t] = "s_lock"]
                 /\ UNCHANGED << result, timer >>
    /\ UNCHANGED << coord, INFER_LOCK, cancel_event, gen_llm, use_mode, model_path, schema_ok,
                    softv, hardv, cancelSetAt, scenev, supports_abort, valv >>

\* with INFER_LOCK:  (blocks while another thread holds it)
soft_lock(t) ==
    /\ pc[t] = "s_lock"
    /\ INFER_LOCK = 0
    /\ INFER_LOCK' = t
    /\ pc' = [pc EXCEPT ![t] = "s_load"]
    /\ UNCHANGED << coord, cancel_event, gen_llm, use_mode, model_path, schema_ok, softv, result,
                    timer, hardv, cancelSetAt, path_seen, scenev, supports_abort, valv >>

\* Variant: the model is loaded on every call.
needs_load_always(t) == TRUE

\* (not gen.is_loaded()) or (gen.model_path != model_path)   (line 625)
needs_load(t) == gen_llm = "" \/ gen_llm # model_path[t]

\* gen.load(model_path) when nothing is loaded or the path changed, then the
\* grammar, the messages and t0 (lines 624-639).  load_ok: Llama(...) did not
\* raise; when it raises, Generator.llm and model_path stay as they were and the
\* exception leaves run_llm_soft through the with block.
soft_load(t) ==
    /\ pc[t] = "s_load"
    /\ loadedNow' = [loadedNow EXCEPT ![t] = needs_load(t)]
    /\ IF needs_load(t)
         THEN \E load_ok \in BOOLEAN :
                IF load_ok
                  THEN /\ gen_llm' = model_path[t]
                       /\ pc' = [pc EXCEPT ![t] = "s_boundary"]
                       /\ UNCHANGED << INFER_LOCK, result, timer >>
                  ELSE /\ INFER_LOCK' = 0
                       /\ Raise(t)
                       /\ UNCHANGED gen_llm
         ELSE /\ pc' = [pc EXCEPT ![t] = "s_boundary"]
              /\ UNCHANGED << INFER_LOCK, gen_llm, result, timer >>
    /\ UNCHANGED << coord, cancel_event, use_mode, model_path, schema_ok, attempt, calls,
                    call_out, sameText, abort_retry, last_err, engineCalls, hardv,
                    cancelSetAt, path_seen, scenev, supports_abort, valv >>

\* Variant: the first failure reason is kept (last_err = last_err or f"...").
next_last_err_keep_first(old, r) == IF old = "None" THEN r ELSE old

\* last_err of the loop after an attempt failed with reason r:  last_err = f"..."
next_last_err(old, r) == r

\* the next index of the for loop after a failed attempt:  continue
next_attempt(i) == i + 1

\* Variant: no cancellation check after the engine call has returned.
postcall_canceled_never(t) == FALSE

\* the cancellation check made once the engine call has returned (line 660)
postcall_canceled(t) == cancel_event[t]

\* Variant: the attempt-boundary check is skipped before the first attempt.
boundary_canceled_after_first(t) == cancel_event[t] /\ attempt[t] > 1

\* the attempt-boundary cancellation check (line 654)
boundary_canceled(t) == cancel_event[t]

\* top of the for loop (lines 653-659): the attempt-boundary check, then _call
\* starts the engine call of this attempt; after the loop, the final return
\* (lines 680-682).
soft_boundary(t) ==
    /\ pc[t] = "s_boundary"
    /\ IF attempt[t] > Len(Attempts)
         THEN /\ Return(t, Failure(IF last_err[t] = "None" THEN "unknown" ELSE last_err[t]))
              /\ INFER_LOCK' = 0
              /\ UNCHANGED << calls, engineCalls, abort_retry >>
         ELSE IF boundary_canceled(t)
         THEN /\ Return(t, Failure("canceled"))
              /\ INFER_LOCK' = 0
              /\ UNCHANGED << calls, engineCalls, abort_retry >>
         ELSE /\ calls' = [calls EXCEPT ![t] = Append(@, Attempts[attempt[t]])]
              /\ engineCalls' = [engineCalls EXCEPT ![t] = @ + 1]
              /\ abort_retry' = [abort_retry EXCEPT ![t] = FALSE]
              /\ pc' = [pc EXCEPT ![t] = "s_incall"]
              /\ UNCHANGED << INFER_LOCK, result, timer >>
    /\ UNCHANGED << coord, cancel_event, gen_llm, use_mode, model_path, schema_ok, attempt,
                    call_out, sameText, loadedNow, last_err, hardv, cancelSetAt, path_seen, scenev,
                    supports_abort, valv >>

\* llm.create_chat_completion(**kwargs) comes back (lines 645-651): with a text,
\* with an exception, or, when abort_callback was passed, with the TypeError that
\* makes _call drop abort_callback and call again.
soft_engine_return(t) ==
    /\ pc[t] = "s_incall"
    /\ \E o \in EngineTexts \cup {"raise", "typeerror_abort"} :
         IF o = "typeerror_abort"
           THEN /\ supports_abort /\ ~abort_retry[t]
                /\ abort_retry' = [abort_retry EXCEPT ![t] = TRUE]
                /\ engineCalls' = [engineCalls EXCEPT ![t] = @ + 1]
                /\ UNCHANGED << pc, call_out, sameText >>
           ELSE /\ call_out' = [call_out EXCEPT ![t] = o]
                /\ sameText' = [sameText EXCEPT ![t] =
                                   attempt[t] = 1 \/ (@ /\ o = call_out[t])]
                /\ pc' = [pc EXCEPT ![t] = IF o = "raise" THEN "s_except" ELSE "s_postcall"]
                /\ UNCHANGED << abort_retry, engineCalls >>
    /\ UNCHANGED << coord, INFER_LOCK, cancel_event, gen_llm, use_mode, model_path, schema_ok,
                    attempt, calls, last_err, loadedNow, result, timer, hardv,
                    cancelSetAt, path_seen,
                    scenev, supports_abort, valv >>

\* the check after _call returned (lines 660-663)
soft_postcall(t) ==
    /\ pc[t] = "s_postcall"
    /\ IF postcall_canceled(t)
         THEN /\ Return(t, Failure("canceled"))
              /\ INFER_LOCK' = 0
         ELSE /\ pc' = [pc EXCEPT ![t] = "s_parse"]
              /\ UNCHANGED << INFER_LOCK, result, timer >>
    /\ UNCHANGED << coord, cancel_event, gen_llm, use_mode, model_path, schema_ok, softv, hardv,
                    cancelSetAt, path_seen, scenev, supports_abort, valv >>

\* strip, empty check, first {...} span, json.loads, validate_and_clip,
\* confidence_score, return ok=True (lines 664-673)
soft_parse(t) ==
    /\ pc[t] = "s_parse"
    /\ IF call_out[t] = "good"
         THEN /\ Return(t, Success)
              /\ INFER_LOCK' = 0
         ELSE /\ pc' = [pc EXCEPT ![t] = "s_except"]
              /\ UNCHANGED << INFER_LOCK, result, timer >>
    /\ UNCHANGED << coord, cancel_event, gen_llm, use_mode, model_path, schema_ok, softv, hardv,
                    cancelSetAt, path_seen, scenev, supports_abort, valv >>

\* Variant of soft_except: the handler goes on to the next attempt without
\* looking at the cancel event.
soft_except_unchecked(t) ==
    /\ pc[t] = "s_except"
    /\ last_err' = [last_err EXCEPT ![t] = next_last_err(@, ErrReason(call_out[t]))]
    /\ attempt' = [attempt EXCEPT ![t] = next_attempt(@)]
    /\ pc' = [pc EXCEPT ![t] = "s_boundary"]
    /\ UNCHANGED << INFER_LOCK, result, timer >>
    /\ UNCHANGED << coord, cancel_event, gen_llm, use_mode, model_path, schema_ok, calls,
                    call_out, sameText, loadedNow, abort_retry, engineCalls, hardv,
                    cancelSetAt, path_seen, scenev,
                    supports_abort, valv >>

\* except Exception as e (lines 674-679)
soft_except(t) ==
    /\ pc[t] = "s_except"
    /\ IF cancel_event[t]
         THEN /\ Return(t, Failure("canceled"))
              /\ INFER_LOCK' = 0
              /\ UNCHANGED << last_err, attempt >>
         ELSE /\ last_err' = [last_err EXCEPT ![t] = next_last_err(@, ErrReason(call_out[t]))]
              /\ attempt' = [attempt EXCEPT ![t] = next_attempt(@)]
              /\ pc' = [pc EXCEPT ![t] = "s_boundary"]
              /\ UNCHANGED << INFER_LOCK, result, timer >>
    /\ UNCHANGED << coord, cancel_event, gen_llm, use_mode, model_path, schema_ok, calls,
                    call_out, sameText, loadedNow, abort_retry, engineCalls, hardv,
                    cancelSetAt, path_seen, scenev,
                    supports_abort, valv >>

----------------------------------------------------------------------------
\* run_llm_hard

\* the result run_llm_hard builds from the line `out` the worker printed
\* (lines 908-935)
hard_result(out) ==
    CASE out = "none"        -> Failure("subproc_no_output")
      [] out = "ok_good"     -> Success
      [] out = "ok_empty"    -> Failure("empty_response")
      [] out = "ok_badjson"  -> Failure("subproc_error: JSONDecodeError")
      [] out = "fail_import" -> Failure("llama import failed")
      [] out = "fail_load"   -> Failure("load failed")
      [] out = "fail_gen"    -> Failure("gen failed")
      [] OTHER               -> Failure("subproc_failed")

\* the fail-fast checks (lines 838-843)
hard_entry(t) ==
    /\ pc[t] = "h_entry"
    /\ \E exists \in BOOLEAN :
         /\ path_seen' = [path_seen EXCEPT ![t] = IF exists THEN "present" ELSE "missing"]
         /\ IF entry_failure(exists, schema_ok[t]) # "none"
              THEN Return(t, Failure(entry_failure(exists, schema_ok[t])))
              ELSE /\ pc' = [pc EXCEPT ![t] = "h_write"]
                   /\ UNCHANGED << result, timer >>
    /\ UNCHANGED << coord, INFER_LOCK, cancel_event, gen_llm, use_mode, model_path, schema_ok,
                    softv, hardv, cancelSetAt, scenev, supports_abort, valv >>

\* worker script, _tmp directory, argument file (lines 845-863).  write_ok: the
\* directory could be made and the file opened for writing.
hard_write(t) ==
    /\ pc[t] = "h_write"
    /\ \E write_ok \in BOOLEAN :
         IF write_ok
           THEN /\ argFile' = [argFile EXCEPT ![t] = TRUE]
                /\ pc' = [pc EXCEPT ![t] = "h_spawn"]
                /\ UNCHANGED << result, timer >>
           ELSE /\ Raise(t)
                /\ UNCHANGED argFile
    /\ UNCHANGED << coord, INFER_LOCK, cancel_event, gen_llm, use_mode, model_path, schema_ok,
                    softv, procState, procOut, procCalls, taskProc, cancelSetAt, path_seen,
                    scenev, supports_abort, valv >>

\* subprocess.Popen and task.proc = proc on the current task (lines 866-888).
\* spawn_ok: Popen did not raise.
hard_spawn(t) ==
    /\ pc[t] = "h_spawn"
    /\ \E spawn_ok \in BOOLEAN :
         IF spawn_ok
           THEN /\ procState' = [procState EXCEPT ![t] = "running"]
                /\ taskProc' = IF CURRENT_TASK # 0
                               THEN [taskProc EXCEPT ![CURRENT_TASK] = t]
                               ELSE taskProc
                /\ pc' = [pc EXCEPT ![t] = "h_poll_cancel"]
                /\ UNCHANGED << result, timer >>
           ELSE /\ Raise(t)
                /\ UNCHANGED << procState, taskProc >>
    /\ UNCHANGED << coord, INFER_LOCK, cancel_event, gen_llm, use_mode, model_path, schema_ok,
                    softv, argFile, procOut, procCalls, cancelSetAt, path_seen, scenev,
                    supports_abort, valv >>

\* the polling loop, first half (lines 893-903): the cancellation check
hard_poll_cancel(t) ==
    /\ pc[t] = "h_poll_cancel"
    /\ IF cancel_event[t]
         THEN /\ procState' = Terminated(t)
              /\ Return(t, Failure("canceled"))
              /\ argFile' = [argFile EXCEPT ![t] = FALSE]       \* finally
         ELSE /\ pc' = [pc EXCEPT ![t] = "h_poll_proc"]
              /\ UNCHANGED << procState, argFile, result, timer >>
    /\ UNCHANGED << coord, INFER_LOCK, cancel_event, gen_llm, use_mode, model_path, schema_ok,
                    softv, procOut, procCalls, taskProc, cancelSetAt, path_seen, scenev,
                    supports_abort, valv >>

\* the polling loop, second half (lines 904-906): proc.poll(), else sleep
hard_poll_proc(t) ==
    /\ pc[t] = "h_poll_proc"
    /\ pc' = [pc EXCEPT ![t] = IF procState[t] \in {"exited", "killed"}
                               THEN "h_read" ELSE "h_poll_cancel"]
    /\ UNCHANGED << coord, INFER_LOCK, cancel_event, gen_llm, use_mode, model_path, schema_ok,
                    softv, result, timer, hardv, cancelSetAt, path_seen, scenev,
                    supports_abort, valv >>

\* proc.communicate and the handling of the worker's line (lines 908-941)
hard_read(t) ==
    /\ pc[t] = "h_read"
    /\ Return(t, hard_result(procOut[t]))
    /\ argFile' = [argFile EXCEPT ![t] = FALSE]                 \* finally
    /\ UNCHANGED << coord, INFER_LOCK, cancel_event, gen_llm, use_mode, model_path, schema_ok,
                    softv, procState, procOut, procCalls, taskProc, cancelSetAt, path_seen,
                    scenev, supports_abort, valv >>

----------------------------------------------------------------------------
\* The worker subprocess: main() of the script written by _ensure_worker_script

\* reading the argument file, importing llama_cpp, Llama(...) (lines 762-800).
\* crash: the process ends without printing (an exception outside the try blocks).
proc_load(t) ==
    /\ procState[t] = "running"
    /\ \E o \in {"crash", "fail_import", "fail_load", "loaded"} :
         CASE o = "loaded" -> /\ procState' = [procState EXCEPT ![t] = "loaded"]
                              /\ UNCHANGED procOut
           [] o = "crash"  -> /\ procState' = [procState EXCEPT ![t] = "exited"]
                              /\ UNCHANGED procOut
           [] OTHER        -> /\ procState' = [procState EXCEPT ![t] = "exited"]
                              /\ procOut' = [procOut EXCEPT ![t] = o]
    /\ UNCHANGED << coord, INFER_LOCK, cancel_event, gen_llm, pc, use_mode,
                    model_path, schema_ok, softv, result, timer, argFile, procCalls, taskProc,
                    cancelSetAt, path_seen, scenev, supports_abort, valv >>

\* the completion of the worker (lines 802-819): one create_chat_completion call,
\* called once more without the grammar only when the first call raised a
\* TypeError naming it; then the single JSON line and exit.
proc_complete(t) ==
    /\ procState[t] = "loaded"
    /\ procCalls' = [procCalls EXCEPT ![t] = @ + 1]
    /\ \E o \in {"ok_good", "ok_empty", "ok_badjson", "fail_gen", "typeerror_grammar"} :
         IF o = "typeerror_grammar"
           THEN /\ procCalls[t] = 0
                /\ UNCHANGED << procState, procOut >>
           ELSE /\ procState' = [procState EXCEPT ![t] = "exited"]
                /\ procOut' = [procOut EXCEPT ![t] = o]
    /\ UNCHANGED << coord, INFER_LOCK, cancel_event, gen_llm, pc, use_mode,
                    model_path, schema_ok, softv, result, timer, argFile, taskProc,
                    cancelSetAt, path_seen,
                    scenev, supports_abort, valv >>

----------------------------------------------------------------------------
ControlStep ==
    \/ \E prompt_ok \in BOOLEAN, path \in Paths \cup {""}, mode \in CancelModes :
          Generate(prompt_ok, path, mode)
    \/ Cancel
    \/ \E models_ok \in BOOLEAN, load_ok \in BOOLEAN : LoadGenerator(models_ok, load_ok)
    \/ \E t \in Tasks : apply(t)
    \/ \E t \in Tasks : err(t)

ThreadStep(t) ==
    \/ worker_start(t)
    \/ soft_entry(t)
    \/ soft_lock(t)
    \/ soft_load(t)
    \/ soft_boundary(t)
    \/ soft_engine_return(t)
    \/ soft_postcall(t)
    \/ soft_parse(t)
    \/ soft_except(t)
    \/ hard_entry(t)
    \/ hard_write(t)
    \/ hard_spawn(t)
    \/ hard_poll_cancel(t)
    \/ hard_poll_proc(t)
    \/ hard_read(t)

ProcStep(t) ==
    \/ proc_load(t)
    \/ proc_complete(t)

Next ==
    \/ ControlStep
    \/ \E t \in Tasks : ThreadStep(t)
    \/ \E t \in Tasks : ProcStep(t)

Spec == Init /\ [][Next]_vars

\* Scheduling: a runnable worker thread runs, a started engine call or worker
\* process comes to an end, and a registered timer callback is run by the host.
FairSpec ==
    /\ Spec
    /\ \A t \in Tasks : WF_vars(ThreadStep(t))
    /\ \A t \in Tasks : WF_vars(ProcStep(t))
    /\ \A t \in Tasks : WF_vars(apply(t))
    /\ \A t \in Tasks : WF_vars(err(t))

----------------------------------------------------------------------------
\* The strategies called directly, outside the coordinator: thread 1 runs the
\* body of _worker with any cancel_mode, model path, schema (empty or not) and
\* cancel event (set or not), with any model already loaded; no task is current.
CoreInit ==
    /\ treegen_busy = FALSE
    /\ treegen_engine_busy = FALSE
    /\ CURRENT_TASK = 0
    /\ TASK_SEQ = 0
    /\ INFER_LOCK = 0
    /\ \E c \in BOOLEAN :
         /\ cancel_event = [t \in Tasks |-> t = 1 /\ c]
         /\ cancelSetAt = [t \in Tasks |-> IF t = 1 /\ c THEN "start" ELSE "unset"]
    /\ taskProc = [t \in Tasks |-> 0]
    /\ gen_llm \in {""} \cup Paths
    /\ pc = [t \in Tasks |-> IF t = 1 THEN "start" ELSE "unborn"]
    /\ \E m \in CancelModes : use_mode = [t \in Tasks |-> IF t = 1 THEN m ELSE "AUTO"]
    /\ \E p \in Paths : model_path = [t \in Tasks |-> IF t = 1 THEN p ELSE "m1"]
    /\ \E k \in BOOLEAN : schema_ok = [t \in Tasks |-> t # 1 \/ k]
    /\ path_seen = [t \in Tasks |-> "unchecked"]
    /\ attempt = [t \in Tasks |-> 1]
    /\ calls = [t \in Tasks |-> << >>]
    /\ call_out = [t \in Tasks |-> "none"]
    /\ sameText = [t \in Tasks |-> TRUE]
    /\ loadedNow = [t \in Tasks |-> FALSE]
    /\ abort_retry = [t \in Tasks |-> FALSE]
    /\ last_err = [t \in Tasks |-> "None"]
    /\ result = [t \in Tasks |-> NoResult]
    /\ timer = [t \in Tasks |-> "none"]
    /\ argFile = [t \in Tasks |-> FALSE]
    /\ procState = [t \in Tasks |-> "none"]
    /\ procOut = [t \in Tasks |-> "none"]
    /\ procCalls = [t \in Tasks |-> 0]
    /\ engineCalls = [t \in Tasks |-> 0]
    /\ objects = 0
    /\ applied = 0
    /\ applyLog = NoLog
    /\ supports_abort \in BOOLEAN
    /\ ValIdle
    /\ SpanIdle
    /\ GbnfIdle
    /\ BlockIdle

CoreNext ==
    \/ \E t \in Tasks : ThreadStep(t)
    \/ \E t \in Tasks : ProcStep(t)

CoreSpec == CoreInit /\ [][CoreNext]_vars

----------------------------------------------------------------------------
\* validate_and_clip called on its own, with any schema cut out of
\* USER_SOCKET_SCHEMA and any candidate mapping of at most MaxCandKeys keys.

\* the largest candidate mapping looked at
MaxCandKeys == 2

\* three entries of user_socket_schema.py, one of each type
USER_SOCKET_SCHEMA ==
    [k \in {"Socket_3", "Socket_9", "Socket_42"} |->
       CASE k = "Socket_3" -> [type |-> "float", ranged |-> TRUE, min |-> 0, max |-> 80,
                               default |-> PyFloat(8)]
         [] k = "Socket_9" -> [type |-> "integer", ranged |-> TRUE, min |-> 2, max |-> 50,
                               default |-> PyInt(12)]
         [] OTHER          -> [type |-> "bool", ranged |-> FALSE, min |-> 0, max |-> 0,
                               default |-> PyBool(TRUE)]]

Schemas == {[k \in D |-> USER_SOCKET_SCHEMA[k]] : D \in SUBSET DOMAIN USER_SOCKET_SCHEMA}

\* keys a candidate may carry: those of the schema and one the schema lacks
CandKeys == DOMAIN USER_SOCKET_SCHEMA \cup {"Socket_x"}

\* values a candidate may carry: 3, 50, 2.5, 3.5, -0.5, NaN, true, false, "yes",
\* "7", null
CandValues == {PyInt(3), PyInt(50), PyFloat(5), PyFloat(7), PyFloat(-1), PyNaN,
               PyBool(TRUE), PyBool(FALSE), PyStr("yes"), PyStr("7"), PyNone}

Candidates ==
    UNION {[D -> CandValues] : D \in {E \in SUBSET CandKeys : Cardinality(E) <= MaxCandKeys}}

ValInit ==
    /\ ProgInit
    /\ vc_params \in Candidates
    /\ vc_schema \in Schemas
    /\ vc_ret = NoReturn
    /\ vc_pc = "call"
    /\ vc_conf = 0
    /\ SpanIdle
    /\ GbnfIdle
    /\ BlockIdle

\* the call returns
validate_call ==
    /\ vc_pc = "call"
    /\ vc_ret' = validate_and_clip(vc_params, vc_schema)
    /\ vc_pc' = "returned"
    /\ UNCHANGED << coord, INFER_LOCK, cancel_event, gen_llm, pc, use_mode, model_path,
                    schema_ok, softv, result, timer, hardv, cancelSetAt, path_seen,
                    scenev, supports_abort, vc_params, vc_schema, vc_conf, spanv, gbnfv,
                    blockv >>

\* conf = confidence_score(validated, defaults_from_schema(schema), clipped), the
\* line after validate_and_clip in both strategies (lines 670 and 924)
confidence_call ==
    /\ vc_pc = "returned"
    /\ vc_conf' = confidence_score(vc_ret.out, defaults_from_schema(vc_schema), vc_ret.clipped)
    /\ vc_pc' = "scored"
    /\ UNCHANGED << coord, INFER_LOCK, cancel_event, gen_llm, pc, use_mode, model_path,
                    schema_ok, softv, result, timer, hardv, cancelSetAt, path_seen,
                    scenev, supports_abort, vc_params, vc_schema, vc_ret, spanv, gbnfv,
                    blockv >>

ValNext == validate_call \/ confidence_call

ValSpec == ValInit /\ [][ValNext]_vars

----------------------------------------------------------------------------
\* The {...} span of the engine's text (lines 664-668 and 920-922), looked at on
\* its own for every stripped, non-empty text of at most MaxRawLen characters.

\* the longest text looked at
MaxRawLen == 4

\* the characters of a text: the two braces and one for everything else
RawChars == {"{", "}", "x"}
RawTexts == UNION {[1..n -> RawChars] : n \in 1..MaxRawLen}

\* the positions of a character in a text
Positions(raw, c) == {i \in 1..Len(raw) : raw[i] = c}
SetMin(X) == CHOOSE x \in X : \A y \in X : x <= y
SetMax(X) == CHOOSE x \in X : \A y \in X : x >= y

\* re.search(r"\{.*\}", raw, flags=re.S): the leftmost "{" that has a "}" after
\* it, and, .* being greedy and matching newlines, the last "}" of the text;
\* << >> for None.  A "}" after any "{" is after the first "{" as well.
re_search(raw) ==
    IF \E i \in Positions(raw, "{") : \E j \in Positions(raw, "}") : i < j
      THEN << SetMin(Positions(raw, "{")), SetMax(Positions(raw, "}")) >>
      ELSE << >>

\* json_text = m.group(0) if m else raw
json_text(raw) ==
    LET m == re_search(raw) IN IF m # << >> THEN SubSeq(raw, m[1], m[2]) ELSE raw

SpanInit ==
    /\ ProgInit
    /\ ValIdle
    /\ GbnfIdle
    /\ BlockIdle
    /\ js_raw \in RawTexts
    /\ js_text = << >>
    /\ js_pc = "call"

\* the two lines run; json_text goes to json.loads
span_call ==
    /\ js_pc = "call"
    /\ js_text' = json_text(js_raw)
    /\ js_pc' = "returned"
    /\ UNCHANGED << coord, INFER_LOCK, cancel_event, gen_llm, pc, use_mode, model_path,
                    schema_ok, softv, result, timer, hardv, cancelSetAt, path_seen,
                    scenev, supports_abort, vc_params, vc_schema, vc_ret, vc_pc, vc_conf,
                    js_raw, gbnfv, blockv >>

SpanSpec == SpanInit /\ [][span_call]_vars

----------------------------------------------------------------------------
\* _gbnf_for_schema (lines 216-256), called on its own.  A schema is a dict in
\* insertion order: a sequence of (key, type) items with distinct keys.  The
\* grammar is kept rule by rule; the right side of a rule is a sequence of
\* strings, one string for a fixed rule and one per alternative for a key rule
\* (json.dumps writes each key in double quotes).

\* the largest schema looked at
MaxSchemaKeys == 3

\* four keys of user_socket_schema.py, here in the order str compares them
KeyOrder == << "Socket_10", "Socket_3", "Socket_42", "Socket_9" >>
GbnfKeys == {KeyOrder[i] : i \in 1..Len(KeyOrder)}

SchemaTypes == {"float", "integer", "bool"}

OrderedSchemas ==
    UNION {{sc \in [1..n -> [key : GbnfKeys, type : SchemaTypes]] :
              \A i, j \in 1..n : i # j => sc[i].key # sc[j].key} : n \in 0..MaxSchemaKeys}

\* [k for k, s in schema.items() if s.get("type") in types]
keys_of_type(schema, types) ==
    LET sel == SelectSeq(schema, LAMBDA e : e.type \in types)
    IN  [i \in 1..Len(sel) |-> sel[i].key]

\* Variant of list_sort: the list is left in insertion order.
list_sort_skipped(xs) == xs

\* xs.sort() of a list of distinct keys
list_sort(xs) == SelectSeq(KeyOrder, LAMBDA k : \E i \in 1..Len(xs) : xs[i] = k)

Rule(lhs, rhs) == [lhs |-> lhs, rhs |-> rhs]

\* boolean_def: the lexical rules every grammar ends with
boolean_def ==
    << Rule("boolean", << "\"true\" | \"false\"" >>),
       Rule("number",  << "integer frac? exp?" >>),
       Rule("integer", << "\"-\"? (\"0\" | [1-9] [0-9]*)" >>),
       Rule("frac",    << "\".\" [0-9]+" >>),
       Rule("exp",     << "(\"e\" | \"E\") (\"+\" | \"-\")? [0-9]+" >>),
       Rule("ws",      << "([ \\t\\n\\r] | comment)*" >>),
       Rule("comment", << "\"/*\" ([^*] | \"*\"+ [^*/])* \"*\"+ \"/\"" >>) >>

_gbnf_for_schema(schema) ==
    LET number_keys == list_sort(keys_of_type(schema, {"float", "integer"}))
        bool_keys   == list_sort(keys_of_type(schema, {"bool"}))
    IN  IF number_keys # << >> /\ bool_keys # << >>
          THEN << Rule("root", << "ws \"{\" ws members? ws \"}\" ws" >>),
                  Rule("members", << "pair (ws \",\" ws pair)*" >>),
                  Rule("pair", << "number_pair | bool_pair" >>),
                  Rule("number_pair", << "number_key ws \":\" ws number" >>),
                  Rule("number_key", number_keys),
                  Rule("bool_pair", << "bool_key ws \":\" ws boolean" >>),
                  Rule("bool_key", bool_keys) >> \o boolean_def
        ELSE IF number_keys # << >>
          THEN << Rule("root", << "ws \"{\" ws members? ws \"}\" ws" >>),
                  Rule("members", << "number_pair (ws \",\" ws number_pair)*" >>),
                  Rule("number_pair", << "number_key ws \":\" ws number" >>),
                  Rule("number_key", number_keys) >> \o boolean_def
        ELSE << Rule("root", << "ws \"{\" ws \"}\" ws" >>) >> \o boolean_def

GbnfInit ==
    /\ ProgInit
    /\ ValIdle
    /\ SpanIdle
    /\ BlockIdle
    /\ gb_schema \in OrderedSchemas
    /\ gb_text = << >>
    /\ gb_pc = "call"

\* the call returns
gbnf_call ==
    /\ gb_pc = "call"
    /\ gb_text' = _gbnf_for_schema(gb_schema)
    /\ gb_pc' = "returned"
    /\ UNCHANGED << coord, INFER_LOCK, cancel_event, gen_llm, pc, use_mode, model_path,
                    schema_ok, softv, result, timer, hardv, cancelSetAt, path_seen,
                    scenev, supports_abort, vc_params, vc_schema, vc_ret, vc_pc, vc_conf,
                    spanv, gb_schema, blockv >>

GbnfSpec == GbnfInit /\ [][gbnf_call]_vars

----------------------------------------------------------------------------
\* build_spec_block (lines 205-214; _build_spec_block of the worker script, lines
\* 732-741, is the same code), called on its own.  A schema is a sequence of
\* items in insertion order; the key of an item is its number, its description
\* is that of its key, and empty says that the spec of the key is {}.

\* the largest schema looked at
MaxBlockKeys == 27

\* list(schema.items())[:25]
SpecBlockLimit == 25

TypeCycle == << "float", "integer", "bool" >>

\* the item of key i: types go round TypeCycle starting at r; a bool has no range
BlockItem(i, r, is_empty) ==
    LET type == TypeCycle[((i + r) % 3) + 1]
    IN  [key |-> i, empty |-> is_empty, type |-> type,
         range |-> IF type = "bool" THEN "None-None" ELSE "lo-hi",
         description |-> i]

\* schemas of n keys with at most one empty spec, at position e (0: none)
BlockSchemas ==
    {[i \in 1..n |-> BlockItem(i, r, i = e)] :
        n \in 0..MaxBlockKeys, e \in 0..MaxBlockKeys, r \in 0..2}

\* the line appended for an item: "k: type lo-hi  # desc, ..."
spec_line(item) ==
    [key |-> item.key, type |-> item.type, range |-> item.range,
     description |-> item.description]

\* build_spec_block(schema), line by line
build_spec_block(schema) ==
    LET first == SubSeq(schema, 1, IF Len(schema) < SpecBlockLimit THEN Len(schema)
                                   ELSE SpecBlockLimit)
        kept  == SelectSeq(first, LAMBDA item : ~item.empty)
    IN  [i \in 1..Len(kept) |-> spec_line(kept[i])]

BlockInit ==
    /\ ProgInit
    /\ ValIdle
    /\ SpanIdle
    /\ GbnfIdle
    /\ sb_schema \in BlockSchemas
    /\ sb_lines = << >>
    /\ sb_pc = "call"

\* the call returns
block_call ==
    /\ sb_pc = "call"
    /\ sb_lines' = build_spec_block(sb_schema)
    /\ sb_pc' = "returned"
    /\ UNCHANGED << coord, INFER_LOCK, cancel_event, gen_llm, pc, use_mode, model_path,
                    schema_ok, softv, result, timer, hardv, cancelSetAt, path_seen,
                    scenev, supports_abort, vc_params, vc_schema, vc_ret, vc_pc, vc_conf,
                    spanv, gbnfv, sb_schema >>

BlockSpec == BlockInit /\ [][block_call]_vars

----------------------------------------------------------------------------
\* Shared vocabulary of the properties

\* the strategy the worker thread of task t runs
IsHard(t) == use_hard(use_mode[t])

\* a strategy has returned its dict and the apply callback has not run yet
Returned(t) == pc[t] = "done" /\ timer[t] = "apply"

\* an inference of task t is in flight: its worker thread is inside run_llm_soft
\* or run_llm_hard, or its worker subprocess is alive
InFlight(t) == pc[t] \in SoftPcs \cup HardPcs \/ procState[t] \in {"running", "loaded"}

Idle == ~treegen_busy /\ ~treegen_engine_busy /\ CURRENT_TASK = 0

Canceled == Failure("canceled")

----------------------------------------------------------------------------
\* C1  Single-flight: in every reachable state at most one inference (a worker
\* thread inside run_llm_soft / run_llm_hard, or a live worker subprocess) is in
\* flight, whatever the interleaving of Generate, Cancel, worker steps and timers.
C1_SingleFlight == Cardinality({t \in Tasks : InFlight(t)}) <= 1

\* a later task's subprocess is running while its coordinator is Stopping
C1_Witness ==
    \E t \in Tasks : /\ t > 1
                     /\ InFlight(t)
                     /\ cancel_event[t]
                     /\ treegen_engine_busy /\ ~treegen_busy

\* C2  A Generate request issued while treegen_engine_busy is true or INFER_LOCK
\* is held changes nothing: the task counter, the current task, the busy flags
\* and the worker threads stay as they are (no task made, no thread started).
C2_BusyGenerateRejected ==
    [][ ( /\ (treegen_engine_busy \/ INFER_LOCK # 0)
          /\ \E prompt_ok \in BOOLEAN, path \in Paths \cup {""}, mode \in CancelModes :
                Generate(prompt_ok, path, mode) )
        => UNCHANGED << TASK_SEQ, CURRENT_TASK, treegen_busy, treegen_engine_busy,
                        pc, cancel_event, timer, INFER_LOCK >> ]_vars

\* a state in which a request meets a Stopping coordinator with the lock free:
\* the request is rejected by the flag alone, and the state after it is this state
C2_Witness ==
    /\ treegen_engine_busy /\ ~treegen_busy /\ INFER_LOCK = 0
    /\ CURRENT_TASK # 0 /\ TASK_SEQ < MaxTasks
    /\ \E t \in Tasks : pc[t] \in HardPcs

\* C3  (as claimed) Once Idle has been reached after an accepted Generate, the
\* coordinator stays able to accept a Generate: from Idle it is either still Idle
\* or running a new task, whatever Cancel requests come in.
C3_StaysAbleToAccept ==
    [][ (Idle /\ TASK_SEQ > 0) => (Idle' \/ CURRENT_TASK' # 0) ]_vars

\* C3  the part of the claim that holds: under fair scheduling every current task
\* leads to Idle with the lock free
C3_EventuallyIdle ==
    \A t \in Tasks : (CURRENT_TASK = t) ~> (Idle /\ INFER_LOCK = 0)

\* C4  If the cancel event is set when the apply callback of a task runs, no
\* object is created, no parameter is applied, the task is cleared and the
\* coordinator is Idle afterwards; also when the strategy had returned ok=true.
C4_ApplyChecksCancelFirst ==
    [][ \A t \in Tasks :
          (timer[t] = "apply" /\ timer'[t] = "none" /\ cancel_event[t])
          => /\ objects' = objects
             /\ applied' = applied
             /\ Idle'
             /\ INFER_LOCK' = 0 ]_vars

\* the callback has skipped a result that was ok=true
C4_Witness ==
    /\ applyLog = [kind |-> "Canceled. Skipping apply.", ok |-> TRUE]
    /\ Idle
    /\ objects = 0

\* the program points after the last cancellation check of a strategy: parsing and
\* validating a returned text, the return after the third failure (soft); between
\* the poll loop's check and the reading of the worker's line (hard)
AfterLastCheck == {"s_parse", "s_final", "h_poll_proc", "h_read", "done"}


\* the results of the fail-fast checks made before any cancellation check
FailFast == {"model_missing", "schema_missing", "llama import failed"}

\* the call of task t ended in a fail-fast check, the event being set by then
FailedFast(t) ==
    /\ cancelSetAt[t] \in {"start", "s_entry", "h_entry"}
    /\ result[t].error \in FailFast

\* C5  (as claimed) A result returned after the cancel event was set at any point
\* before the strategy returned is the canceled result: never ok=true, never
\* another error tag (the fail-fast configuration errors left aside).
C5_CancelBeforeReturnWins ==
    \A t \in Tasks :
        ( /\ Returned(t)
          /\ cancelSetAt[t] \notin {"unset", "done"}
          /\ ~FailedFast(t) )
        => result[t] = Canceled

\* C5  (amended) If the cancel event is set before the strategy's last
\* cancellation check and the call does not fail fast, the result is canceled.
C5_CancelBeforeLastCheckWins ==
    \A t \in Tasks :
        ( /\ Returned(t)
          /\ cancelSetAt[t] \notin {"unset"} \cup AfterLastCheck
          /\ ~FailedFast(t) )
        => result[t] = Canceled

\* the event was set while an engine call was in flight, or while the worker
\* subprocess was being polled, and the result is canceled
C5_Witness ==
    \E t \in Tasks : /\ Returned(t)
                     /\ cancelSetAt[t] \in {"s_incall", "h_poll_cancel"}
                     /\ result[t] = Canceled

\* C6  (as claimed) run_llm_soft called with the cancel event already set and an
\* existing model path returns canceled and never calls the completion function.
C6_SoftPreCanceled ==
    \A t \in Tasks :
        ( /\ Returned(t) /\ ~IsHard(t)
          /\ cancelSetAt[t] = "start"
          /\ result[t].error # "model_missing" )
        => (result[t] = Canceled /\ engineCalls[t] = 0)

\* C6  (amended) With the event set before the call, the completion function is
\* never called, however the call ends; and a result is canceled unless the call
\* failed fast (model missing, llama_cpp not importable).
C6_SoftPreCanceledNoEngineCall ==
    \A t \in Tasks :
        (~IsHard(t) /\ cancelSetAt[t] = "start")
        => /\ engineCalls[t] = 0
           /\ pc[t] \notin {"s_incall", "s_postcall", "s_parse", "s_except"}
           /\ (Returned(t) /\ result[t].error \notin FailFast) => result[t] = Canceled

\* the call got past the fail-fast checks, took the lock, and returned canceled
C6_Witness ==
    \E t \in Tasks : /\ Returned(t) /\ ~IsHard(t)
                     /\ cancelSetAt[t] = "start"
                     /\ result[t] = Canceled
                     /\ gen_llm = model_path[t]

\* C7  (as claimed) run_llm_hard called with the cancel event already set: no
\* worker subprocess loads the model or makes a completion call.
C7_HardPreCanceledNoEngine ==
    \A t \in Tasks :
        (IsHard(t) /\ cancelSetAt[t] = "start")
        => (procState[t] # "loaded" /\ procCalls[t] = 0)

\* C8  The attempts of run_llm_soft are made in the order (0.4, grammar),
\* (0.2, grammar), (0.4, no grammar), at most three of them, attempt k+1 only after
\* k failures, and an attempt whose text validates ends the run with ok=true.
C8_RetryOrder ==
    \A t \in Tasks :
        /\ Len(calls[t]) <= 3
        /\ calls[t] = SubSeq(<< [temp |-> 4, use_g |-> TRUE],
                                [temp |-> 2, use_g |-> TRUE],
                                [temp |-> 4, use_g |-> FALSE] >>, 1, Len(calls[t]))
        /\ Len(calls[t]) <= attempt[t]
        /\ attempt[t] <= Len(calls[t]) + 1
        /\ call_out[t] = "good" =>
              /\ pc[t] \in {"s_postcall", "s_parse", "done"}
              /\ Len(calls[t]) = attempt[t]
              /\ Returned(t) => result[t] \in {Success, Canceled}
        /\ (Returned(t) /\ result[t].ok /\ ~IsHard(t)) =>
              (call_out[t] = "good" /\ Len(calls[t]) = attempt[t])

\* the third attempt succeeded after two failures
C8_Witness ==
    \E t \in Tasks : Returned(t) /\ result[t] = Success /\ Len(calls[t]) = 3

\* C9  When all three attempts fail without cancellation, the result is ok=false
\* with params null and the failure reason of the third attempt as the error.
C9_LastErrorSurfaces ==
    \A t \in Tasks :
        (Returned(t) /\ attempt[t] = 4)
        => result[t] = Failure(ErrReason(call_out[t]))

\* three failures, the last one an unparseable text
C9_Witness ==
    \E t \in Tasks : /\ Returned(t) /\ attempt[t] = 4 /\ Len(calls[t]) = 3
                     /\ call_out[t] = "badjson"
                     /\ result[t].error = "JSONDecodeError: Expecting value"

\* C10  (as claimed) Under the isolated strategy a failure result for an empty or
\* malformed model text is returned only after the attempt budget is used up.
C10_HardRetriesTransient ==
    \A t \in Tasks :
        ( /\ Returned(t) /\ IsHard(t)
          /\ procOut[t] \in {"ok_empty", "ok_badjson"}
          /\ ~result[t].ok /\ result[t] # Canceled )
        => procCalls[t] >= Len(Attempts)

\* the line the worker subprocess prints for a model text (lines 816-817)
worker_line(text) ==
    CASE text = "good"    -> "ok_good"
      [] text = "empty"   -> "ok_empty"
      [] text = "badjson" -> "ok_badjson"

\* C11  (as claimed) Strategy equivalence: a run of run_llm_soft in which every
\* engine call handed back the same text returns, unless canceled, the result
\* run_llm_hard builds from that text: same ok, params and violations, for good,
\* empty and unparseable texts alike.
C11_StrategyEquivalence ==
    \A t \in Tasks :
        ( /\ Returned(t) /\ ~IsHard(t)
          /\ call_out[t] \in EngineTexts /\ sameText[t]
          /\ result[t] # Canceled
          /\ (result[t].ok \/ attempt[t] > Len(Attempts)) )
        => result[t] = hard_result(worker_line(call_out[t]))

\* C12  (as claimed) No exception leaves run_llm_soft or run_llm_hard: the worker
\* thread never has to register the _err callback.
C12_NeverRaises == \A t \in Tasks : timer[t] # "err"

\* C13  (as claimed) Once run_llm_hard has returned or raised, the argument
\* file it wrote is gone.
C13_ArgFileRemoved == \A t \in Tasks : pc[t] = "done" => ~argFile[t]

\* the configuration errors
ConfigErrors == {"model_missing", "schema_missing"}

\* C14  A missing model path gives model_missing, and otherwise an empty schema
\* gives schema_missing; the call returns at once: no attempt, no engine call,
\* the lock is not taken, the model is not loaded, no argument file, no worker.
C14_ConfigFailFast ==
    /\ [](\A t \in Tasks :
            /\ path_seen[t] = "missing"
                 => (Returned(t) /\ result[t] = Failure("model_missing"))
            /\ (path_seen[t] = "present" /\ ~schema_ok[t])
                 => (Returned(t) /\ result[t] = Failure("schema_missing"))
            /\ (Returned(t) /\ result[t].error \in ConfigErrors)
                 => /\ path_seen[t] = "missing" \/ ~schema_ok[t]
                    /\ attempt[t] = 1 /\ calls[t] = << >> /\ engineCalls[t] = 0
                    /\ INFER_LOCK # t
                    /\ ~argFile[t] /\ procState[t] = "none" /\ procCalls[t] = 0)
    /\ [][\A t \in Tasks :
             (result'[t] # result[t] /\ result'[t].error \in ConfigErrors)
             => /\ pc[t] \in {"s_entry", "h_entry"}
                /\ UNCHANGED << INFER_LOCK, gen_llm, softv, hardv >>]_vars

\* an empty schema with an existing model path, under the isolated strategy
C14_Witness ==
    \E t \in Tasks : /\ Returned(t) /\ IsHard(t)
                     /\ path_seen[t] = "present" /\ ~schema_ok[t]
                     /\ result[t] = Failure("schema_missing")

\* C15  HARD always runs run_llm_hard, SOFT always runs run_llm_soft, AUTO runs
\* run_llm_hard exactly when the engine lacks abort-callback support; a task that
\* has come back from its strategy ran one of them and shows no trace of the other.
C15_StrategySelection ==
    \A t \in Tasks :
        LET hardMode == use_mode[t] = "HARD" \/ (use_mode[t] = "AUTO" /\ ~supports_abort)
            softMode == use_mode[t] = "SOFT" \/ (use_mode[t] = "AUTO" /\ supports_abort)
            softTrace == \/ INFER_LOCK = t \/ engineCalls[t] > 0 \/ calls[t] # << >>
                         \/ loadedNow[t] \/ last_err[t] # "None"
            hardTrace == argFile[t] \/ procState[t] # "none" \/ procOut[t] # "none"
        IN  pc[t] \notin {"unborn", "ended"} =>
              /\ pc[t] \in HardPcs => hardMode
              /\ pc[t] \in SoftPcs => softMode
              /\ softTrace => softMode
              /\ hardTrace => hardMode
              /\ pc[t] = "done" => path_seen[t] # "unchecked"

\* under AUTO, with no abort-callback support, the worker subprocess has loaded
C15_Witness ==
    \E t \in Tasks : use_mode[t] = "AUTO" /\ ~supports_abort /\ procState[t] = "loaded"

\* the program points of run_llm_soft at which the thread uses the handle it read
\* from Generator.llm
UsingHandle == {"s_boundary", "s_incall", "s_postcall", "s_parse", "s_except"}

\* C16  (as claimed) While a thread is inside the critical section of INFER_LOCK
\* and uses the handle, no other thread loads or replaces Generator.llm.
C16_HandleChangesUnderLock ==
    [][ (INFER_LOCK # 0 /\ pc[INFER_LOCK] \in UsingHandle) => gen_llm' = gen_llm ]_vars

\* C17  A call of run_llm_soft calls gen.load exactly when no model is loaded or
\* the loaded path differs from the requested one; with the requested path
\* already loaded the handle is kept and the call goes on without loading.
C17_LoadOrReuse ==
    [][ \A t \in Tasks :
          (pc[t] = "s_load" /\ pc'[t] # "s_load")
          => /\ loadedNow'[t] = (gen_llm = "" \/ gen_llm # model_path[t])
             /\ IF gen_llm = model_path[t]
                  THEN gen_llm' = gen_llm /\ pc'[t] = "s_boundary"
                  ELSE \/ gen_llm' = model_path[t] /\ pc'[t] = "s_boundary"
                       \/ gen_llm' = gen_llm /\ timer'[t] = "err" ]_vars

\* the second task's call found its path loaded by the first and did not load
C17_Witness ==
    /\ TASK_SEQ = 2 /\ pc[2] = "s_incall"
    /\ model_path[2] = "m2" /\ gen_llm = "m2" /\ ~loadedNow[2]

\* C18  When the poll of run_llm_hard sees the cancel event, the worker process
\* is terminated (killed if still alive) and the canceled result is returned;
\* whenever run_llm_hard has returned canceled the process is not alive, and a
\* line it printed before is not used.
C18_HardCancelStopsWorker ==
    /\ [](\A t \in Tasks :
            (Returned(t) /\ result[t] = Canceled /\ procState[t] # "none")
            => procState[t] \in {"killed", "exited"})
    /\ [][\A t \in Tasks :
             (pc[t] = "h_poll_cancel" /\ cancel_event[t] /\ pc'[t] # pc[t])
             => /\ result'[t] = Canceled
                /\ procState'[t] \in {"killed", "exited"}
                /\ procState[t] \in {"running", "loaded"} => procState'[t] = "killed"]_vars

\* the worker had printed a good line and exited; the result is canceled all the same
C18_Witness ==
    \E t \in Tasks : /\ Returned(t) /\ result[t] = Canceled
                     /\ procState[t] = "exited" /\ procOut[t] = "ok_good"

\* C19  (as claimed) A worker process that has left main has printed its one
\* line of JSON.
C19_WorkerPrintsOneLine ==
    \A t \in Tasks : procState[t] = "exited" => procOut[t] # "none"

\* C20  The params returned by validate_and_clip(C, S) have exactly the keys of
\* S: every key of the schema, and no key the schema lacks.
C20_OutKeysAreSchemaKeys ==
    vc_pc = "returned" => DOMAIN vc_ret.out = DOMAIN vc_schema

\* a candidate with one key of the schema and one unknown key, against a schema
\* of two keys
C20_Witness ==
    /\ vc_pc = "returned"
    /\ DOMAIN vc_schema = {"Socket_3", "Socket_9"}
    /\ DOMAIN vc_params = {"Socket_9", "Socket_x"}
    /\ DOMAIN vc_ret.out = {"Socket_3", "Socket_9"}
    /\ DOMAIN vc_ret.violations = {"Socket_3", "Socket_x"}

\* the schema keys the candidate of the call carries
Present == DOMAIN vc_schema \cap DOMAIN vc_params

\* a value is a number lo <= x <= hi, bounds in halves
InRange(a, lo, hi) == a.k \in {"int", "float"} /\ lo <= a.v /\ a.v <= hi

\* C21  For every float or integer spec with min <= max and every input value,
\* in range, out of range or unparseable, the value clip_value returns lies in
\* [min, max].
C21_ClipInRange ==
    vc_pc = "returned" =>
        \A k \in Present :
            (vc_schema[k].type \in {"float", "integer"} /\ vc_schema[k].ranged
               /\ vc_schema[k].min <= vc_schema[k].max)
            => InRange(vc_ret.out[k], vc_schema[k].min, vc_schema[k].max)

\* d1 == d2 of two Python dicts: the same keys, and under each key the same
\* object or two values that are ==
PyDictEq(d1, d2) ==
    /\ DOMAIN d1 = DOMAIN d2
    /\ \A k \in DOMAIN d1 : d1[k] = d2[k] \/ PyEq(d1[k], d2[k])

\* C22  Validation is idempotent: validating the params validate_and_clip(C, S)
\* returned against S again returns the same params, for filled-in defaults and
\* for bool and integer specs too.
C22_Idempotent ==
    vc_pc = "returned" =>
        PyDictEq(validate_and_clip(vc_ret.out, vc_schema).out, vc_ret.out)

\* a default filled in, 2.5 rounded for an integer spec, "yes" for a bool spec
C22_Witness ==
    /\ vc_pc = "returned"
    /\ DOMAIN vc_schema = {"Socket_3", "Socket_9", "Socket_42"}
    /\ DOMAIN vc_params = {"Socket_9", "Socket_42"}
    /\ vc_params["Socket_9"] = PyFloat(5)
    /\ vc_params["Socket_42"] = PyStr("yes")
    /\ vc_ret.out["Socket_9"] = PyInt(2)
    /\ validate_and_clip(vc_ret.out, vc_schema).out = vc_ret.out

\* C23  For a bool key whose candidate value is the truthy string "yes",
\* validate_and_clip outputs true under the key and records no entry of the
\* clip report for it.
C23_TruthyStringNotClipped ==
    vc_pc = "returned" =>
        \A k \in Present :
            (vc_schema[k].type = "bool" /\ vc_params[k] = PyStr("yes"))
            => vc_ret.out[k] = PyBool(TRUE) /\ k \notin DOMAIN vc_ret.clipped

\* C24  The clip report is exact: a schema key the candidate carries has an
\* entry exactly when the output is not equal (Python ==) to the input, the
\* entry is {in: input, out: output}, and no other key has an entry.
C24_ClipReportExact ==
    vc_pc = "returned" =>
        /\ DOMAIN vc_ret.clipped \subseteq Present
        /\ \A k \in Present :
             /\ k \in DOMAIN vc_ret.clipped <=> ~PyEq(vc_ret.out[k], vc_params[k])
             /\ k \in DOMAIN vc_ret.clipped =>
                  vc_ret.clipped[k] = [in |-> vc_params[k], out |-> vc_ret.out[k]]

\* 25 against the range [0, 40] of Socket_3 is clamped and reported, 3 for the
\* integer Socket_9 is not; Socket_42 is absent
C24_Witness ==
    /\ vc_pc = "returned"
    /\ DOMAIN vc_schema = {"Socket_3", "Socket_9", "Socket_42"}
    /\ DOMAIN vc_params = {"Socket_3", "Socket_9"}
    /\ vc_params["Socket_3"] = PyInt(50)
    /\ vc_params["Socket_9"] = PyInt(3)
    /\ DOMAIN vc_ret.clipped = {"Socket_3"}
    /\ vc_ret.clipped["Socket_3"] = [in |-> PyInt(50), out |-> PyFloat(80)]

\* C25  A schema key the candidate lacks gets the spec's default, unchanged, and
\* the violation "missing->default"; a key the candidate carries gets no such
\* violation.
C25_MissingGetsDefault ==
    vc_pc = "returned" =>
        /\ \A k \in DOMAIN vc_schema \ DOMAIN vc_params :
             /\ vc_ret.out[k] = vc_schema[k].default
             /\ k \in DOMAIN vc_ret.violations
             /\ vc_ret.violations[k] = "missing->default"
        /\ \A k \in DOMAIN vc_params :
             k \in DOMAIN vc_ret.violations => vc_ret.violations[k] # "missing->default"

\* Socket_3 missing beside a Socket_9 that is present
C25_Witness ==
    /\ vc_pc = "returned"
    /\ DOMAIN vc_schema = {"Socket_3", "Socket_9"}
    /\ DOMAIN vc_params = {"Socket_9"}
    /\ vc_ret.out["Socket_3"] = PyFloat(8)
    /\ vc_ret.violations = [k \in {"Socket_3"} |-> "missing->default"]

\* C26  A candidate key the schema lacks is left out of the output params and
\* gets the violation "unknown-key->dropped"; the candidate mapping is not
\* modified by the call.
C26_UnknownDropped ==
    /\ [](vc_pc = "returned" =>
            \A k \in DOMAIN vc_params \ DOMAIN vc_schema :
                /\ k \notin DOMAIN vc_ret.out
                /\ k \in DOMAIN vc_ret.violations
                /\ vc_ret.violations[k] = "unknown-key->dropped")
    /\ [][vc_params' = vc_params]_vars

\* an unknown key beside a known one, the candidate as it was given
C26_Witness ==
    /\ vc_pc = "returned"
    /\ DOMAIN vc_schema = {"Socket_42"}
    /\ vc_params = [k \in {"Socket_42", "Socket_x"} |-> PyBool(TRUE)]
    /\ DOMAIN vc_ret.out = {"Socket_42"}
    /\ vc_ret.violations = [k \in {"Socket_x"} |-> "unknown-key->dropped"]

\* braces opened and not yet closed in raw[i..j]
Depth(raw, i, j) ==
    Cardinality({m \in i..j : raw[m] = "{"}) - Cardinality({m \in i..j : raw[m] = "}"})

\* the "}" that matches the "{" at i, as a set: empty when it is never closed
Matching(raw, i) ==
    {j \in (i + 1)..Len(raw) :
        /\ raw[j] = "}"
        /\ Depth(raw, i, j) = 0
        /\ \A m \in i..(j - 1) : Depth(raw, i, m) > 0}

\* the positions where a balanced {...} region starts
BalancedStarts(raw) == {i \in Positions(raw, "{") : Matching(raw, i) # {}}

\* the first balanced {...} span of a text that has one
FirstBalancedSpan(raw) ==
    LET i == SetMin(BalancedStarts(raw))
    IN  SubSeq(raw, i, SetMin(Matching(raw, i)))

\* C27  For a text with a balanced {...} region the text handed to the JSON
\* parser is the first balanced {...} span, from its "{" to the matching "}",
\* also when further braces follow; for a text without one it is the raw text.
C27_FirstBalancedSpanParsed ==
    js_pc = "returned" =>
        js_text = IF BalancedStarts(js_raw) # {} THEN FirstBalancedSpan(js_raw) ELSE js_raw

\* the right side of the rule of a grammar with the given left side, << >> when
\* the grammar has no such rule
Rhs(g, lhs) ==
    IF \E i \in 1..Len(g) : g[i].lhs = lhs
      THEN g[CHOOSE i \in 1..Len(g) : g[i].lhs = lhs].rhs
      ELSE << >>

SeqRange(xs) == {xs[i] : i \in 1..Len(xs)}

\* the pair rules the root of a grammar reaches through members
PairsOf(g) ==
    IF Rhs(g, "root") # << "ws \"{\" ws members? ws \"}\" ws" >> THEN {}
    ELSE IF Rhs(g, "members") = << "number_pair (ws \",\" ws number_pair)*" >>
      THEN {"number_pair"}
    ELSE IF Rhs(g, "members") = << "pair (ws \",\" ws pair)*" >>
            /\ Rhs(g, "pair") = << "number_pair | bool_pair" >>
      THEN {"number_pair", "bool_pair"}
    ELSE {}

\* the keys a grammar allows with a number, and with true or false
NumberKeysOf(g) ==
    IF "number_pair" \in PairsOf(g)
         /\ Rhs(g, "number_pair") = << "number_key ws \":\" ws number" >>
      THEN SeqRange(Rhs(g, "number_key")) ELSE {}
BoolKeysOf(g) ==
    IF "bool_pair" \in PairsOf(g)
         /\ Rhs(g, "bool_pair") = << "bool_key ws \":\" ws boolean" >>
      THEN SeqRange(Rhs(g, "bool_key")) ELSE {}

\* the grammar accepts the empty object and nothing else
EmptyObjectOnly(g) == Rhs(g, "root") = << "ws \"{\" ws \"}\" ws" >>

\* the keys of a schema that have one of the given types
SchemaKeys(schema, types) == SeqRange(keys_of_type(schema, types))

\* C28  For every schema the compiled grammar allows each float or integer key
\* with a number and each bool key with true or false, and no other key; the
\* grammar of the empty object alone is produced exactly when the schema has no
\* numeric and no bool key.
C28_GrammarCoversKeys ==
    gb_pc = "returned" =>
        /\ NumberKeysOf(gb_text) = SchemaKeys(gb_schema, {"float", "integer"})
        /\ BoolKeysOf(gb_text) = SchemaKeys(gb_schema, {"bool"})
        /\ EmptyObjectOnly(gb_text) <=>
             SchemaKeys(gb_schema, {"float", "integer", "bool"}) = {}

\* the same items in every insertion order
Reorderings(schema) ==
    {[i \in 1..Len(schema) |-> schema[f[i]]] : f \in Permutations(1..Len(schema))}

\* a list of keys is in the order str compares them
Lexicographic(xs) == xs = SelectSeq(KeyOrder, LAMBDA k : k \in SeqRange(xs))

\* C29  Compiling the same schema again gives the same grammar, the key
\* alternatives are in lexicographic order, and schemas with the same keys and
\* types in another insertion order compile to the same grammar.
C29_GrammarDeterministic ==
    gb_pc = "returned" =>
        /\ _gbnf_for_schema(gb_schema) = gb_text
        /\ Lexicographic(Rhs(gb_text, "number_key"))
        /\ Lexicographic(Rhs(gb_text, "bool_key"))
        /\ \A other \in Reorderings(gb_schema) : _gbnf_for_schema(other) = gb_text

\* Socket_9 inserted before Socket_10, Socket_42 first: the alternatives come
\* out as Socket_10, Socket_9
C29_Witness ==
    /\ gb_pc = "returned"
    /\ gb_schema = << [key |-> "Socket_42", type |-> "bool"],
                      [key |-> "Socket_9", type |-> "integer"],
                      [key |-> "Socket_10", type |-> "integer"] >>
    /\ Rhs(gb_text, "number_key") = << "Socket_10", "Socket_9" >>
    /\ Rhs(gb_text, "bool_key") = << "Socket_42" >>

\* C30  For every combination of validated params, defaults and clip report,
\* confidence_score returns a value in [0, 1].
C30_ConfidenceInUnitInterval ==
    vc_pc = "scored" => 0 <= vc_conf /\ vc_conf <= Resolution

\* 25 for Socket_3 is clamped to 40.0, far from the default 4.0, and reported:
\* base 1.0, penalty 0.5, confidence 0.5
C30_Witness ==
    /\ vc_pc = "scored"
    /\ DOMAIN vc_schema = {"Socket_3"}
    /\ vc_params = [k \in {"Socket_3"} |-> PyInt(50)]
    /\ DOMAIN vc_ret.clipped = {"Socket_3"}
    /\ vc_conf = Resolution \div 2

\* C31  In confidence_score a bool key present in validated and in defaults
\* contributes 0.3 to diffs when its value differs from the default and 0 when it
\* is equal, whichever of the two is true.
C31_BoolDiffIsThreeTenths ==
    vc_pc = "scored" =>
        \A k \in DOMAIN vc_ret.out :
            vc_schema[k].type = "bool" =>
                key_diff(vc_ret.out[k], defaults_from_schema(vc_schema)[k])
                  = IF vc_ret.out[k] # vc_schema[k].default THEN (3 * Resolution) \div 10 ELSE 0

\* C34  For an integer spec clip_value rounds the parsed number to the nearest
\* integer, an exact half to the even neighbour (2.5 gives 2, 3.5 gives 4, -0.5
\* gives 0), and only then clamps to [min, max]; an unparseable value is
\* replaced by the default before clamping.

\* the integer nearest to a number in halves, the even one of two equally near
NearestEven(h) ==
    IF h % 2 = 0 THEN h \div 2
    ELSE CHOOSE n \in {(h - 1) \div 2, (h + 1) \div 2} : n % 2 = 0

\* n clamped to the integer range of a spec
Clamped(n, spec) ==
    LET lo == spec.min \div 2
        hi == spec.max \div 2
    IN  IF n < lo THEN lo ELSE IF n > hi THEN hi ELSE n

\* the value parses as a real number
Parseable(a) == float_ok(a) /\ float_of(a) # PyNaN

C34_IntegerRoundsHalfEven ==
    vc_pc = "returned" =>
        \A k \in Present :
            vc_schema[k].type = "integer" =>
                vc_ret.out[k] =
                    PyInt(Clamped(IF Parseable(vc_params[k])
                                    THEN NearestEven(float_of(vc_params[k]).v)
                                    ELSE NumOf(vc_schema[k].default) \div 2,
                                  vc_schema[k]))

\* 2.5 given for Socket_9 comes out as 2
C34_Witness ==
    /\ vc_pc = "returned"
    /\ DOMAIN vc_schema = {"Socket_9"}
    /\ vc_params = [k \in {"Socket_9"} |-> PyFloat(5)]
    /\ vc_ret.out = [k \in {"Socket_9"} |-> PyInt(2)]

\* C39  confidence_score returns 0 whenever every validated value equals its
\* default, numeric and bool keys alike, whatever the clip report contains, and
\* whenever no key of validated is in defaults.
C39_DefaultsScoreZero ==
    vc_pc = "scored" =>
        LET defaults == defaults_from_schema(vc_schema)
            common   == DOMAIN vc_ret.out \cap DOMAIN defaults
        IN  (\A k \in common : PyEq(vc_ret.out[k], defaults[k])) => vc_conf = 0

\* "yes" for Socket_42 gives the default true and an entry of the clip report;
\* Socket_3 is filled in from its default
C39_Witness ==
    /\ vc_pc = "scored"
    /\ DOMAIN vc_schema = {"Socket_3", "Socket_42"}
    /\ vc_params = [k \in {"Socket_42"} |-> PyStr("yes")]
    /\ DOMAIN vc_ret.clipped = {"Socket_42"}
    /\ vc_ret.out = defaults_from_schema(vc_schema)
    /\ vc_conf = 0

\* the coordinator is Stopping for task t: canceled, still current, engine flag up
Stopping(t) ==
    CURRENT_TASK = t /\ cancel_event[t] /\ ~treegen_busy /\ treegen_engine_busy

\* C32  A Cancel request issued while a task is current sets that task's cancel
\* event, terminates the worker process the task holds if it is still alive, and
\* leaves treegen_busy false and treegen_engine_busy true; from then on the
\* coordinator is not Idle and accepts no Generate until the timer callback of
\* that task (_apply, or _err after an exception in the worker) has run.
C32_CancelStopsUntilApply ==
    /\ [][ (Cancel /\ CURRENT_TASK # 0) =>
             /\ cancel_event'[CURRENT_TASK]
             /\ (taskProc[CURRENT_TASK] # 0
                   /\ procState[taskProc[CURRENT_TASK]] \in {"running", "loaded"})
                => procState'[taskProc[CURRENT_TASK]] = "killed"
             /\ Stopping(CURRENT_TASK)' ]_vars
    /\ [][ \A t \in Tasks :
             Stopping(t) =>
               \/ Stopping(t)' /\ TASK_SEQ' = TASK_SEQ
               \/ timer[t] \in {"apply", "err"} /\ timer'[t] = "none" ]_vars

\* Cancel has killed the live worker process of the current task, whose thread
\* is still in the polling loop
C32_Witness ==
    \E t \in Tasks :
        /\ Stopping(t)
        /\ taskProc[t] = t /\ procState[t] = "killed"
        /\ pc[t] \in {"h_poll_cancel", "h_poll_proc"}
        /\ cancelSetAt[t] \in {"h_poll_cancel", "h_poll_proc"}

\* C33  If the cancel event is set while the engine call of attempt k is in
\* flight, then, whether that call returns or raises, run_llm_soft returns the
\* canceled result and never starts the engine call of attempt k+1.
C33_CancelInFlightStopsRetries ==
    /\ [](\A t \in Tasks :
            (cancelSetAt[t] = "s_incall" /\ pc[t] = "done")
            => timer[t] = "apply" /\ result[t] = Canceled)
    /\ [][ \A t \in Tasks :
             (cancelSetAt[t] = "s_incall" /\ pc'[t] # "ended")
             => calls'[t] = calls[t] /\ attempt'[t] = attempt[t] ]_vars

\* the call of the second attempt raised after the event was set during it
C33_Witness ==
    \E t \in Tasks :
        /\ Returned(t) /\ result[t] = Canceled
        /\ cancelSetAt[t] = "s_incall"
        /\ call_out[t] = "raise"
        /\ attempt[t] = 2 /\ Len(calls[t]) = 2

\* C36  At every step boundary of the control thread treegen_engine_busy is
\* true exactly when a task is current, and treegen_busy implies
\* treegen_engine_busy; a Cancel request with no current task leaves the
\* coordinator Idle.
C36_CoordinatorInvariant ==
    /\ treegen_engine_busy <=> CURRENT_TASK # 0
    /\ treegen_busy => treegen_engine_busy

\* C37  In every state in which Generate is accepted (treegen_engine_busy false,
\* INFER_LOCK free) no worker thread is inside a strategy or about to enter one
\* and no timer callback of an earlier task is pending; a timer callback never
\* runs while another task is current.
C37_IdleIsQuiescent ==
    /\ []((~treegen_engine_busy /\ INFER_LOCK = 0) =>
            \A t \in Tasks : pc[t] \in {"unborn", "ended"} /\ timer[t] = "none")
    /\ [][ \A t \in Tasks :
             (timer[t] # "none" /\ timer'[t] = "none") => CURRENT_TASK = t ]_vars

\* the first task has been applied and retired, and a second Generate is possible
C37_Witness ==
    /\ ~treegen_engine_busy /\ INFER_LOCK = 0
    /\ TASK_SEQ = 1 /\ pc[1] = "ended" /\ timer[1] = "none"
    /\ applyLog.kind = "OK"

\* C38  Every result a strategy returns has either ok true, params not null and
\* keyed by the schema keys (the mapping validate_and_clip returned) and raw not
\* empty, or ok false, params, raw and clipped null, confidence 0 and a
\* violations mapping with the key "error".
C38_ResultShape ==
    \A t \in Tasks :
        Returned(t) =>
            \/ /\ result[t].ok
               /\ result[t].params = "validated"
               /\ result[t].raw = "text"
            \/ /\ ~result[t].ok
               /\ result[t].params = "null"
               /\ result[t].raw = "null"
               /\ result[t].clipped = "null"
               /\ result[t].confidence = "0.0"
               /\ result[t].error \notin {"none", "(pending)"}

\* the subprocess printed a good line after a failed one was ruled out
C38_Witness ==
    \E t \in Tasks :
        /\ Returned(t) /\ result[t] = Success /\ procOut[t] = "ok_good"

\* C35  The spec block of the system message has one line per schema key, in
\* insertion order, with the key's type, range and description, for schemas of
\* any size (keys whose spec is empty have nothing to list and are left aside).
C35_SpecBlockListsEveryKey ==
    sb_pc = "returned" =>
        LET listed == SelectSeq(sb_schema, LAMBDA item : ~item.empty)
        IN  /\ Len(sb_lines) = Len(listed)
            /\ \A i \in 1..Len(listed) :
                 /\ i <= Len(sb_lines)
                 /\ sb_lines[i].key = listed[i].key
                 /\ sb_lines[i].type = listed[i].type
                 /\ sb_lines[i].range = listed[i].range
                 /\ sb_lines[i].description = listed[i].description

====
